---------------------------- MODULE Spec2Model ----------------------------
(***************************************************************************)
(* A model of the static site build pipeline of src/gen.py:                *)
(*   Spec      the five phases of main() with the document processor       *)
(*   SpecPar   the parallel task runner parallelize()                      *)
(*   SpecDisc  content discovery (scan_content_dirs / scan_single_dir)     *)
(*   SpecLink  the link validation crawler (validate_site / is_valid_url)  *)
(*   SpecMerge the configuration merge merge_config_dicts()                *)
(*   SpecDoc   one content file through process_single_doc and save_doc    *)
(*   SpecSort  the sort of the pages in process_docs                       *)
(*   SpecClean the output directory, resolved, trimmed and cleaned         *)
(*   SpecNav   the posts registry process_docs builds                      *)
(*   SpecYaml  one YAML file loaded by add_yml_content_to_config           *)
(*   SpecBuild the render workers of build_docs and build_single_file      *)
(* Strings the code slices, strips or concatenates are sequences of        *)
(* one-character strings; other strings are TLA+ strings.                  *)
(***************************************************************************)
EXTENDS Integers, Sequences, FiniteSets, Bags, TLC

VARIABLES
    \* ---- main(): the pipeline ----
    pc,            \* position of main()
    started,       \* the phases that have been entered, in order
    exit_code,     \* process exit status; -1 while running
    world,         \* what is on disk and in the environment (never changes)
    posts_items,   \* config["content"]["posts"]["items"], in dict order
    pages_items,   \* config["content"]["pages"]["items"], in dict order
    build_error,   \* the error entries of the exception that ended the build
    raised,        \* the phase whose exception reached main(), or "none"
    dropped,       \* names of the items whose processing ended in the except branch
    output,        \* the files below the output directory
    \* ---- parallelize() ----
    par_pc,        \* position of the calling thread inside parallelize
    par_items,     \* the items: what the worker does for each
    par_call,      \* the phase that calls, and the configured max_workers
    par_max,       \* max_workers of the ThreadPoolExecutor
    par_state,     \* state of each future
    par_yielded,   \* futures already handed out by as_completed
    par_results,   \* the local list `results`
    par_ret,       \* the value returned to the caller
    par_calls,     \* how often the worker was invoked for each item
    \* ---- discovery ----
    disc_pc,       \* position of each scan_single_dir worker
    disc_dirs,     \* all_paths: the directories handed to the workers
    disc_items,    \* content[type]["items"]: (type, stem) -> stub
    disc_assets,   \* content["assets"]: bucket name -> list of paths
    disc_log,      \* registry keys and lists written so far, with the writer
    \* ---- link validation ----
    link_pc,       \* position of validate_site
    link_world,    \* output tree, base url and the validate_site setting
    link_valid,    \* valid_urls
    link_html,     \* html_files
    link_checked,  \* how often each html file was handed to the worker
    link_results,  \* the lists of broken links returned by the workers
    link_error,    \* the broken links of the raised ValueError
    \* ---- functions checked on their own ----
    fn_in,         \* the arguments
    fn_out         \* the values computed from them so far

mainVars == <<pc, started, exit_code, world, posts_items, pages_items, build_error,
              raised, dropped, output>>
parVars  == <<par_pc, par_items, par_call, par_max, par_state, par_yielded, par_results,
              par_ret, par_calls>>
discVars == <<disc_pc, disc_dirs, disc_items, disc_assets, disc_log>>
linkVars == <<link_pc, link_world, link_valid, link_html, link_checked,
              link_results, link_error>>
fnVars   == <<fn_in, fn_out>>
vars == <<mainVars, parVars, discVars, linkVars, fnVars>>

-----------------------------------------------------------------------------
(* Python str operations on sequences of characters                         *)

Range(s) == {s[i] : i \in 1..Len(s)}

\* s.startswith(p)
StartsWith(s, p) ==
    /\ Len(p) <= Len(s)
    /\ SubSeq(s, 1, Len(p)) = p

\* s.endswith(p)
EndsWith(s, p) ==
    /\ Len(p) <= Len(s)
    /\ SubSeq(s, Len(s) - Len(p) + 1, Len(s)) = p

\* s[n:]
DropFirst(s, n) == IF n >= Len(s) THEN <<>> ELSE SubSeq(s, n + 1, Len(s))

\* s[:-n]   (n > 0)
DropLast(s, n) == IF n >= Len(s) THEN <<>> ELSE SubSeq(s, 1, Len(s) - n)

\* sub in s
RECURSIVE Contains(_, _)
Contains(s, sub) ==
    IF Len(sub) > Len(s) THEN FALSE
    ELSE IF StartsWith(s, sub) THEN TRUE
    ELSE Contains(Tail(s), sub)

\* s.lstrip("/")
RECURSIVE LStrip(_)
LStrip(s) == IF s # <<>> /\ Head(s) = "/" THEN LStrip(Tail(s)) ELSE s

\* s.rstrip("/")
RECURSIVE RStrip(_)
RStrip(s) ==
    IF s # <<>> /\ s[Len(s)] = "/" THEN RStrip(SubSeq(s, 1, Len(s) - 1)) ELSE s

\* s.strip("/")
Strip(s) == RStrip(LStrip(s))

\* s.replace(old, ""): the non-overlapping occurrences of old, left to right,
\* are removed; with old = "" and an empty replacement the result is s.
RECURSIVE Remove(_, _)
Remove(s, old) ==
    IF old = <<>> \/ s = <<>> THEN s
    ELSE IF StartsWith(s, old) THEN Remove(DropFirst(s, Len(old)), old)
    ELSE <<Head(s)>> \o Remove(Tail(s), old)

\* s.split(c)[0]
RECURSIVE BeforeFirst(_, _)
BeforeFirst(s, c) ==
    IF s = <<>> \/ Head(s) = c THEN <<>>
    ELSE <<Head(s)>> \o BeforeFirst(Tail(s), c)

\* s.find(sub) + Len(sub) when sub occurs in s (the index after the first
\* occurrence); only used where sub is known to occur.
RECURSIVE AfterFirst(_, _)
AfterFirst(s, sub) ==
    IF StartsWith(s, sub) THEN DropFirst(s, Len(sub))
    ELSE IF s = <<>> THEN <<>>
    ELSE AfterFirst(Tail(s), sub)

\* "/".join(parts)
RECURSIVE Join(_)
Join(parts) ==
    IF parts = <<>> THEN <<>>
    ELSE IF Len(parts) = 1 THEN parts[1]
    ELSE parts[1] \o <<"/">> \o Join(Tail(parts))

\* the bag of the elements of a sequence
RECURSIVE BagOfSeq(_)
BagOfSeq(s) ==
    IF s = <<>> THEN EmptyBag ELSE SetToBag({Head(s)}) (+) BagOfSeq(Tail(s))

-----------------------------------------------------------------------------
(* parallelize (src/gen.py 1305-1334)                                       *)

MaxParItems == 3

\* what a worker can do with an item: raise, or return a value; "" stands
\* for the falsy values (None, [], {}, ""), the others are truthy
WorkerOutcomes == {"raise", "", "r1", "r2"}

\* `if result:` at line 1329
Truthy_Always(v) == TRUE
Truthy(v) == v # ""

\* max_workers: 8 by default, or build.envs.max_workers
DefaultMaxWorkers == 8

\* the callers of parallelize: discovery (line 238) and processing (line
\* 313) pass config=config; copy_assets (755), build_css_html_files (792),
\* build_docs (896) and validate_site (1066) pass no configuration
Phases == {"discovery", "processing", "assets", "css", "rendering", "validation"}

\* lines 1316-1318: max_workers = 8, and the configured value `if config:`
MaxWorkersOf(phase, configured) ==
    IF phase \in {"discovery", "processing"} THEN configured ELSE DefaultMaxWorkers

ParIdx == 1..Len(par_items)
ParFinished(i) == par_state[i] \in {"done", "failed"}

\* ThreadPoolExecutor.__exit__ is shutdown(wait=True): it returns when the
\* queue is drained and every worker thread has finished its task
ShutdownWaitOver_NoWait == TRUE
ShutdownWaitOver == \A i \in ParIdx : ParFinished(i)

NoReturn == <<"no value">>

ParInit ==
    /\ par_pc = "call"
    /\ par_items \in UNION {[1..k -> WorkerOutcomes] : k \in 0..MaxParItems}
    /\ par_call \in [phase : Phases, configured : {1, 2, DefaultMaxWorkers}]
    /\ par_max = MaxWorkersOf(par_call.phase, par_call.configured)
    /\ par_state = [i \in 1..Len(par_items) |-> "unsubmitted"]
    /\ par_yielded = {}
    /\ par_results = <<>>
    /\ par_ret = NoReturn
    /\ par_calls = [i \in 1..Len(par_items) |-> 0]

\* lines 1312-1314: an empty list returns [] before any executor exists
ParEmpty ==
    /\ par_pc = "call"
    /\ par_items = <<>>
    /\ par_pc' = "returned"
    /\ par_ret' = <<>>
    /\ UNCHANGED <<par_items, par_call, par_max, par_state, par_yielded, par_results, par_calls>>

\* lines 1320-1325: every item is submitted, results = []
ParSubmit ==
    /\ par_pc = "call"
    /\ par_items # <<>>
    /\ par_pc' = "collect"
    /\ par_state' = [i \in ParIdx |-> "pending"]
    /\ par_results' = <<>>
    /\ UNCHANGED <<par_items, par_call, par_max, par_yielded, par_ret, par_calls>>

\* a pool thread takes the oldest queued work item; at most max_workers
\* threads exist.  Queued items are still taken after shutdown(wait=True).
WorkerStart(i) ==
    /\ par_pc \in {"collect", "exiting", "unwinding"}
    /\ par_state[i] = "pending"
    /\ \A j \in ParIdx : j < i => par_state[j] # "pending"
    /\ Cardinality({j \in ParIdx : par_state[j] = "running"}) < par_max
    /\ par_state' = [par_state EXCEPT ![i] = "running"]
    /\ par_calls' = [par_calls EXCEPT ![i] = @ + 1]
    /\ UNCHANGED <<par_pc, par_items, par_call, par_max, par_yielded, par_results, par_ret>>

\* processor_func returns or raises; the future keeps the outcome
WorkerFinish(i) ==
    /\ par_state[i] = "running"
    /\ par_state' = [par_state EXCEPT
                        ![i] = IF par_items[i] = "raise" THEN "failed" ELSE "done"]
    /\ UNCHANGED <<par_pc, par_items, par_call, par_max, par_yielded, par_results, par_ret, par_calls>>

\* lines 1326-1332: as_completed hands out a finished future; result() either
\* gives the value, kept when truthy, or re-raises, and the RuntimeError
\* leaves the loop
Collect(i) ==
    /\ par_pc = "collect"
    /\ ParFinished(i)
    /\ i \notin par_yielded
    /\ par_yielded' = par_yielded \cup {i}
    /\ IF par_state[i] = "failed"
       THEN /\ par_pc' = "unwinding"
            /\ UNCHANGED par_results
       ELSE /\ par_pc' = "collect"
            /\ par_results' = IF Truthy(par_items[i])
                              THEN Append(par_results, par_items[i])
                              ELSE par_results
    /\ UNCHANGED <<par_items, par_call, par_max, par_state, par_ret, par_calls>>

\* the loop is exhausted: the with block is left normally
CollectEnd ==
    /\ par_pc = "collect"
    /\ par_yielded = ParIdx
    /\ par_pc' = "exiting"
    /\ UNCHANGED <<par_items, par_call, par_max, par_state, par_yielded, par_results, par_ret, par_calls>>

\* line 1334, after __exit__ has waited
ParReturn ==
    /\ par_pc = "exiting"
    /\ ShutdownWaitOver
    /\ par_pc' = "returned"
    /\ par_ret' = par_results
    /\ UNCHANGED <<par_items, par_call, par_max, par_state, par_yielded, par_results, par_calls>>

\* the RuntimeError of line 1332 leaves parallelize, after __exit__ has waited
ParRaise ==
    /\ par_pc = "unwinding"
    /\ ShutdownWaitOver
    /\ par_pc' = "raised"
    /\ UNCHANGED <<par_items, par_call, par_max, par_state, par_yielded, par_results, par_ret, par_calls>>

ParIdle ==
    /\ par_pc = "idle" /\ par_items = <<>> /\ par_max = DefaultMaxWorkers
    /\ par_call = [phase |-> "none", configured |-> DefaultMaxWorkers]
    /\ par_state = <<>> /\ par_yielded = {} /\ par_results = <<>>
    /\ par_ret = NoReturn /\ par_calls = <<>>

-----------------------------------------------------------------------------
(* Content discovery (src/gen.py 210-287)                                   *)

MaxStems == 1
MaxYearDirs == 1

StemNames == <<"about", "hello", "notes">>
Stems == {StemNames[i] : i \in 1..MaxStems}
YearNames == <<"2023", "2024", "2025">>

Absent == [exists |-> FALSE]

\* a content directory: the stems of its content files and whether it has
\* an images/ subdirectory (holding one file)
ContentDirs(path, type) ==
    {[exists |-> TRUE, path |-> path, type |-> type, stems |-> S, images |-> b,
      buckets |-> {}] : S \in (SUBSET Stems) \ {{}}, b \in BOOLEAN}

\* an assets directory: its css/ subdirectory (holding one file)
AssetDirs(path) ==
    {[exists |-> TRUE, path |-> path, type |-> "assets", stems |-> {},
      images |-> FALSE, buckets |-> {"css"}]}

RECURSIVE StubOps(_)
StubOps(ss) ==
    IF ss = <<>> THEN <<>>
    ELSE <<[op |-> "check", stem |-> Head(ss)], [op |-> "write", stem |-> Head(ss)]>>
         \o StubOps(Tail(ss))

RECURSIVE BucketOps(_)
BucketOps(B) ==
    IF B = {} THEN <<>>
    ELSE LET b == CHOOSE x \in B : TRUE
         IN <<[op |-> "extend", bucket |-> b]>> \o BucketOps(B \ {b})

\* scan_single_dir as the sequence of its reads and writes of the registry:
\* lines 254-260 extend the images list, lines 263-280 test and then set
\* the stub of each content file, lines 283-287 extend one list per
\* subdirectory of an assets directory
Ops(d) ==
    IF d.type = "assets" THEN BucketOps(d.buckets)
    ELSE (IF d.images THEN <<[op |-> "extend", bucket |-> "images"]>> ELSE <<>>)
         \o StubOps(SelectSeq(SubSeq(StemNames, 1, MaxStems),
                             LAMBDA s : s \in d.stems))

\* the registry key or list an operation writes
Target(d, o) ==
    IF o.op = "extend" THEN <<"assets", o.bucket>>
    ELSE <<"items", d.type, o.stem>>

DiscIdx == 1..Len(disc_dirs)

\* the state of worker w after one more operation: scan_single_dir returns
\* after its last one
Stepped(w) ==
    [disc_pc[w] EXCEPT !.at = @ + 1,
                       !.st = IF disc_pc[w].at + 1 = Len(Ops(disc_dirs[w]))
                              THEN "done" ELSE "running"]
DiscRunning == {w \in DiscIdx : disc_pc[w].st = "running"}

DiscInit ==
    /\ \E sp \in ContentDirs(<<"site", "content", "pages">>, "pages") \cup {Absent},
          tp \in ContentDirs(<<"theme", "content", "pages">>, "pages") \cup {Absent},
          n \in 0..MaxYearDirs,
          sa \in AssetDirs(<<"site", "assets">>) \cup {Absent},
          ta \in AssetDirs(<<"theme", "assets">>) \cup {Absent} :
        \E years \in [1..n -> UNION {ContentDirs(<<"site", "content", "posts", YearNames[y]>>, "posts")
                                      : y \in 1..MaxYearDirs}] :
            /\ \A y \in 1..n : years[y].path[4] = YearNames[y]
            \* lines 231-236: all_paths, in the order of discovery_config,
            \* existing paths only
            /\ disc_dirs = SelectSeq(<<sp, tp>> \o years \o <<sa, ta>>,
                                     LAMBDA d : d.exists)
    /\ disc_pc = [w \in 1..Len(disc_dirs) |-> [st |-> "pending", at |-> 0, ref |-> 0]]
    /\ disc_items = <<>>
    /\ disc_assets = [b \in {"css", "images", "fonts", "favicon"} |-> <<>>]
    /\ disc_log = {}

\* the pool starts the workers in submission order, max_workers at a time
DiscStart(w) ==
    /\ par_max \in Nat
    /\ disc_pc[w].st = "pending"
    /\ \A v \in DiscIdx : v < w => disc_pc[v].st # "pending"
    /\ Cardinality(DiscRunning) < par_max
    /\ disc_pc' = [disc_pc EXCEPT ![w].st = "running"]
    /\ UNCHANGED <<disc_dirs, disc_items, disc_assets, disc_log>>

\* line 269: `item_name in items`; on the true branch line 270 takes a
\* reference to the dict that is in the registry now
DiscCheck(w) ==
    LET d == disc_dirs[w]
        o == Ops(d)[disc_pc[w].at + 1]
        k == Target(d, o)
    IN /\ disc_pc[w].st = "running"
       /\ disc_pc[w].at < Len(Ops(d))
       /\ o.op = "check"
       /\ disc_pc' = [disc_pc EXCEPT ![w] = [Stepped(w) EXCEPT
                                                !.ref = IF k \in DOMAIN disc_items
                                                        THEN disc_items[k].id ELSE 0]]
       /\ UNCHANGED <<disc_dirs, disc_items, disc_assets, disc_log>>

\* the stub a worker leaves for a file in the dict with identity id:
\* lines 271-273 set the three fields of the dict it holds, lines 276-280
\* put a new dict under the key
StubOf(id, d, stem) ==
    [id |-> id, file_path |-> d.path \o <<stem>>, content_type |-> d.type,
     name |-> stem]

DiscWrite(w) ==
    LET d == disc_dirs[w]
        o == Ops(d)[disc_pc[w].at + 1]
        k == Target(d, o)
        ref == disc_pc[w].ref
    IN /\ disc_pc[w].st = "running"
       /\ disc_pc[w].at < Len(Ops(d))
       /\ o.op = "write"
       /\ disc_pc' = [disc_pc EXCEPT ![w] = Stepped(w)]
       /\ disc_items' =
            IF ref = 0
            THEN [x \in DOMAIN disc_items \cup {k} |->
                    IF x = k THEN StubOf(w, d, o.stem) ELSE disc_items[x]]
            ELSE IF k \in DOMAIN disc_items /\ disc_items[k].id = ref
            THEN [disc_items EXCEPT ![k] = StubOf(ref, d, o.stem)]
            ELSE disc_items   \* the dict written is no longer in the registry
       /\ disc_log' = disc_log \cup {[w |-> w, target |-> k]}
       /\ UNCHANGED <<disc_dirs, disc_assets>>

\* lines 256-260 and 285-287: setdefault(...) and extend(...) of one list
DiscExtend(w) ==
    LET d == disc_dirs[w]
        o == Ops(d)[disc_pc[w].at + 1]
    IN /\ disc_pc[w].st = "running"
       /\ disc_pc[w].at < Len(Ops(d))
       /\ o.op = "extend"
       /\ disc_pc' = [disc_pc EXCEPT ![w] = Stepped(w)]
       /\ disc_assets' = [disc_assets EXCEPT
                             ![o.bucket] = Append(@, d.path \o <<o.bucket, "file">>)]
       /\ disc_log' = disc_log \cup {[w |-> w, target |-> Target(d, o)]}
       /\ UNCHANGED <<disc_dirs, disc_items>>

DiscDone == \A w \in DiscIdx : disc_pc[w].st = "done"

DiscIdle ==
    /\ disc_pc = <<>> /\ disc_dirs = <<>> /\ disc_items = <<>>
    /\ disc_assets = <<>> /\ disc_log = {}

-----------------------------------------------------------------------------
(* Link validation (src/gen.py 1021-1202)                                   *)

MaxLinks == 1

\* characters of the strings the crawler works on
S_slash       == <<"/">>
S_dot_slash   == <<".", "/">>
S_up_slash    == <<".", ".", "/">>
S_dslash      == <<"/", "/">>
S_index       == <<"i", "n", "d", "e", "x", ".", "h", "t", "m", "l">>
S_dot_html    == <<".", "h", "t", "m", "l">>
S_feed        == <<"f", "e", "e", "d", ".", "x", "m", "l">>

\* the links of the pages
L_about_slash == <<"/", "a", "b", "o", "u", "t", "/">>
L_about       == <<"/", "a", "b", "o", "u", "t">>
L_about_index == <<"/", "a", "b", "o", "u", "t", "/", "i", "n", "d", "e", "x", ".", "h", "t", "m", "l">>
\* /aboot/, https://x.io/about/, https://ext.io/ and #top besides
LinkUniverse ==
    {L_about_slash, L_about, L_about_index,
     <<"/", "a", "b", "o", "o", "t", "/">>,
     <<"h", "t", "t", "p", "s", ":", "/", "/", "x", ".", "i", "o", "/", "a", "b", "o", "u", "t", "/">>,
     <<"h", "t", "t", "p", "s", ":", "/", "/", "e", "x", "t", ".", "i", "o", "/">>,
     <<"#", "t", "o", "p">>}

\* files the build can have written, as path segments below the output
\* root: index.html, about/index.html, feed.xml
F_about_index == <<<<"a", "b", "o", "u", "t">>, S_index>>
FileUniverse == {<<S_index>>, F_about_index, <<S_feed>>}

IsIndex(f) == f[Len(f)] = S_index

\* the directories below the output root that os.walk visits
DirsOf(files) == UNION {{SubSeq(f, 1, k) : k \in 1..(Len(f) - 1)} : f \in files}

\* scan_valid_urls_from_output, lines 1089-1123: valid_urls
ValidUrlsOf_IndexFilesToo(files) ==
    {Join(d) : d \in DirsOf(files)} \cup {Join(f) : f \in files}
    \cup {<<"p", "u", "b">>}
ValidUrlsOf(files) ==
    {Join(d) : d \in DirsOf(files)}
    \cup {IF IsIndex(f) THEN Join(SubSeq(f, 1, Len(f) - 1)) ELSE Join(f) : f \in files}
    \cup {<<"p", "u", "b">>}

\* scan_valid_urls_from_output, lines 1113-1120: html_files
HtmlFilesOf(files) == {f \in files : IsIndex(f) \/ EndsWith(f[Len(f)], S_dot_html)}

\* is_valid_url, lines 1162-1163: the url is not checked at all
IsSkipped(url, base) ==
    /\ ~StartsWith(url, base)
    /\ ~(StartsWith(url, S_slash) \/ StartsWith(url, S_dot_slash)
         \/ StartsWith(url, S_up_slash))

\* is_valid_url, lines 1167-1177: doubled separators
IsMalformed(url) ==
    IF \/ StartsWith(url, <<"h", "t", "t", "p", ":", "/", "/">>)
       \/ StartsWith(url, <<"h", "t", "t", "p", "s", ":", "/", "/">>)
    THEN Contains(AfterFirst(url, <<":", "/", "/">>), S_dslash)
    ELSE Contains(url, S_dslash)

\* is_valid_url, lines 1180-1190: the path before the index.html rule
StrippedPath(url, base) ==
    LET p0 == IF StartsWith(url, base)
              THEN Strip(Remove(url, base))
              ELSE Remove(Remove(LStrip(url), S_up_slash), S_dot_slash)
    IN RStrip(BeforeFirst(BeforeFirst(p0, "?"), "#"))

\* is_valid_url, lines 1196-1199: path[:-10] on a path ending in /index.html
IndexCollapsed(p) ==
    IF p = S_index THEN <<>>
    ELSE IF EndsWith(p, S_slash \o S_index) THEN DropLast(p, 10)
    ELSE p

\* the path is_valid_url looks up
NormalizedPath(url, base) == IndexCollapsed(StrippedPath(url, base))

is_valid_url(url, valid_urls, base) ==
    IF IsSkipped(url, base) THEN TRUE
    ELSE IF IsMalformed(url) THEN FALSE
    ELSE IF StrippedPath(url, base) = <<>> THEN TRUE
    ELSE LET path == NormalizedPath(url, base)
         IN path \in valid_urls \/ (path \o S_slash) \in valid_urls

\* lines 1047-1048: the name a file is reported under
DocName(f) == Remove(Join(f), S_dot_html)

RECURSIVE SetToSeq(_)
SetToSeq(S) ==
    IF S = {} THEN <<>>
    ELSE LET x == CHOOSE y \in S : TRUE IN <<x>> \o SetToSeq(S \ {x})

\* validate_single_doc_internal_links, lines 1038-1064: an exception while
\* the file is read or parsed is logged and the list built so far (empty)
\* is returned
BrokenLinksOf(f, page, valid_urls, base) ==
    IF ~page.readable THEN <<>>
    ELSE SetToSeq({[url |-> u, doc |-> DocName(f)] :
                     u \in {v \in page.links : ~is_valid_url(v, valid_urls, base)}})

Pages == {[readable |-> r, links |-> ls] :
            r \in BOOLEAN,
            ls \in {x \in SUBSET LinkUniverse : Cardinality(x) <= MaxLinks}}

RECURSIVE Flatten(_)
Flatten(ss) == IF ss = <<>> THEN <<>> ELSE Head(ss) \o Flatten(Tail(ss))

LinkInit ==
    \* base: config["env"]["url"], empty or https://x.io
    /\ \E files \in SUBSET FileUniverse, v \in BOOLEAN,
          base \in {<<>>, <<"h", "t", "t", "p", "s", ":", "/", "/", "x", ".", "i", "o">>} :
         \E pages \in [HtmlFilesOf(files) -> Pages] :
            link_world = [files |-> files, pages |-> pages, base_url |-> base,
                          validate_site |-> v]
    /\ link_pc = "start"
    /\ link_valid = {}
    /\ link_html = {}
    /\ link_checked = <<>>
    /\ link_results = <<>>
    /\ link_error = <<>>

\* lines 1023-1029
LinkDisabled ==
    /\ link_pc = "start"
    /\ ~link_world.validate_site
    /\ link_pc' = "done"
    /\ UNCHANGED <<link_world, link_valid, link_html, link_checked, link_results, link_error>>

\* lines 1031-1036
LinkScan ==
    /\ link_pc = "start"
    /\ link_world.validate_site
    /\ link_valid' = ValidUrlsOf(link_world.files)
    /\ link_html' = HtmlFilesOf(link_world.files)
    /\ link_checked' = [f \in HtmlFilesOf(link_world.files) |-> 0]
    /\ link_pc' = IF HtmlFilesOf(link_world.files) = {} THEN "done" ELSE "checking"
    /\ UNCHANGED <<link_world, link_results, link_error>>

\* one worker of the parallelize call of line 1066 runs to completion and
\* its result is collected (line 1329 keeps non-empty lists only)
LinkCheck(f) ==
    /\ link_pc = "checking"
    /\ f \in link_html
    /\ link_checked[f] = 0
    /\ link_checked' = [link_checked EXCEPT ![f] = @ + 1]
    /\ LET r == BrokenLinksOf(f, link_world.pages[f], link_valid, link_world.base_url)
       IN link_results' = IF r # <<>> THEN Append(link_results, r) ELSE link_results
    /\ UNCHANGED <<link_pc, link_world, link_valid, link_html, link_error>>

\* lines 1070-1075
LinkFinish ==
    /\ link_pc = "checking"
    /\ \A f \in link_html : link_checked[f] > 0
    /\ LET all_broken_links == Flatten(link_results)
       IN IF all_broken_links # <<>>
          THEN /\ link_pc' = "raised"
               /\ link_error' = all_broken_links
          ELSE /\ link_pc' = "done"
               /\ UNCHANGED link_error
    /\ UNCHANGED <<link_world, link_valid, link_html, link_checked, link_results>>

LinkIdle ==
    /\ link_pc = "idle" /\ link_world = <<>> /\ link_valid = {} /\ link_html = {}
    /\ link_checked = <<>> /\ link_results = <<>> /\ link_error = <<>>

-----------------------------------------------------------------------------
(* Dicts: functions from keys to values                                     *)

Get(d, k, default) == IF k \in DOMAIN d THEN d[k] ELSE default
Put(d, k, v) == [x \in DOMAIN d \cup {k} |-> IF x = k THEN v ELSE d[x]]
\* {**a, **b}
Merge(a, b) == [x \in DOMAIN a \cup DOMAIN b |-> IF x \in DOMAIN b THEN b[x] ELSE a[x]]
EmptyDict == [x \in {} |-> 0]

\* a dict of documents keyed by name, kept as the sequence of its values in
\* insertion order: {d["name"]: d for d in docs}
RECURSIVE DictInsert(_, _)
DictInsert(items, d) ==
    IF items = <<>> THEN <<d>>
    ELSE IF Head(items)["name"] = d["name"] THEN <<d>> \o Tail(items)
    ELSE <<Head(items)>> \o DictInsert(Tail(items), d)

RECURSIVE DictOf(_)
DictOf(docs) ==
    IF docs = <<>> THEN <<>>
    ELSE DictInsert(DictOf(SubSeq(docs, 1, Len(docs) - 1)), docs[Len(docs)])

\* character order of str comparison, for the characters used here
CharOrder == <<"-", "/", "0", "1", "2", "3", "4", "5", "6", "7", "8", "9", "a", "b", "c", "d", "e", "f", "g", "h", "i", "j", "k", "l", "m", "n", "o", "p", "q", "r", "s", "t", "u", "v", "w", "x", "y", "z">>
CharRank(c) == CHOOSE i \in 1..Len(CharOrder) : CharOrder[i] = c

\* a < b for str
RECURSIVE StrLess(_, _)
StrLess(a, b) ==
    IF b = <<>> THEN FALSE
    ELSE IF a = <<>> THEN TRUE
    ELSE IF Head(a) = Head(b) THEN StrLess(Tail(a), Tail(b))
    ELSE CharRank(Head(a)) < CharRank(Head(b))

\* posts.sort(key=lambda p: p.get("date"), reverse=True), line 330: a stable
\* sort, so posts of equal date keep their order
RECURSIVE InsertPost(_, _)
InsertPost(sorted, x) ==
    IF sorted = <<>> THEN <<x>>
    ELSE IF x["date"] > Head(sorted)["date"] THEN <<x>> \o sorted
    ELSE <<Head(sorted)>> \o InsertPost(Tail(sorted), x)

RECURSIVE SortPosts(_)
SortPosts(s) ==
    IF s = <<>> THEN <<>>
    ELSE InsertPost(SortPosts(SubSeq(s, 1, Len(s) - 1)), s[Len(s)])

\* pages.sort(key=lambda p: p.get("nav_title", "zzz")), line 331
NavKey(p) == Get(p, "nav_title", <<"z", "z", "z">>)

RECURSIVE InsertPage(_, _)
InsertPage(sorted, x) ==
    IF sorted = <<>> THEN <<x>>
    ELSE IF StrLess(NavKey(x), NavKey(Head(sorted))) THEN <<x>> \o sorted
    ELSE <<Head(sorted)>> \o InsertPage(Tail(sorted), x)

RECURSIVE SortPages(_)
SortPages(s) ==
    IF s = <<>> THEN <<>>
    ELSE InsertPage(SortPages(SubSeq(s, 1, Len(s) - 1)), s[Len(s)])

-----------------------------------------------------------------------------
(* The document processor (src/gen.py 295-696)                              *)

MaxDocs == 2

S_en     == <<"e", "n">>
S_fi     == <<"f", "i">>
S_tag    == <<"t", "a", "g">>
S_dash   == <<"-">>
S_dot_md == <<".", "m", "d">>
U_a      == <<"a">>
U_b      == <<"b">>
T_x      == <<"x">>

D_march == "2024-03-01 10:00:00 +0000"
D_jan   == "2024-01-01 10:00:00 +0000"

\* datetime.strptime(date_value, "%Y-%m-%d %H:%M:%S %z"), line 498: the
\* instant of a well-formed string; any other string raises
Instant(s) == IF s = D_march THEN 20240301 ELSE 20240101

\* read_time_words_per_minute, line 520
DefaultWordsPerMinute == 200

\* content.<type>.defaults, content.languages and content.pages.tags as
\* the configuration files give them
Config(skip, tags_enabled) ==
    [posts_defaults |-> [template |-> "post.html"],
     pages_defaults |-> [template |-> "page.html", language |-> S_en, date |-> D_jan],
     languages |-> [l \in {S_en, S_fi} |->
                      IF l = S_en
                      THEN [skip_language_path_in_url |-> skip, tag_url_prefix |-> S_tag]
                      ELSE [tag_url_prefix |-> S_tag]],
     tags |-> [enabled |-> tags_enabled, template |-> "tag.html", languages |-> <<S_en>>]]

NameOf(i) == <<"n", <<"1", "2", "3", "4", "5">>[i]>>

\* the stub discovery leaves for the i-th content file (lines 276-280);
\* an item that only the configuration files name has no file_path
Stub(i, type) ==
    [name |-> NameOf(i), content_type |-> type,
     file_path |-> <<"/", "s", "/">> \o NameOf(i)
                   \o (IF type = "posts" THEN S_dot_md ELSE S_dot_html)]

\* the front matter a content file can have, its title aside
FrontMatters ==
    LET base == [language |-> S_en, date |-> D_march]
    IN { Put(base, "url", U_a),
         Put(Put(Put(base, "url", U_b), "tags", <<T_x>>), "date", D_jan),
         Put(base, "url", S_slash),
         Put(Put(base, "url", S_tag \o S_slash \o T_x), "tags", <<T_x>>),
         [url |-> U_a, date |-> D_march],
         base,
         Put(Put(base, "url", U_a), "date", "01.03.2024"),
         Put(Put(Put(base, "url", U_a), "tags", <<T_x>>), "languages",
             <<[lang |-> S_en, overrides |-> EmptyDict],
               [lang |-> S_fi, overrides |-> [url |-> U_b]]>>) }

Unreadable == [readable |-> FALSE, fm |-> EmptyDict, body |-> <<>>]

\* a content file as open()/read() and parse_front_matter_and_content see it
SourceFiles ==
    {[readable |-> TRUE, fm |-> f, body |-> <<"lorem", "ipsum">>] : f \in FrontMatters}
    \cup {Unreadable}

\* the file of a stub: the title in its front matter goes with its name
FileOf(item, file) ==
    IF ~file.readable THEN file
    ELSE [file EXCEPT !.fm = Put(@, "title", <<"t">> \o Tail(item["name"]))]

Failure == [ok |-> FALSE]
Success(d) == [ok |-> TRUE, doc |-> d]

\* lines 423-455; markdown.markdown(content, ...) is the body wrapped in
\* markup
add_html_to_doc(content, doc) ==
    Put(doc, "html_content",
        IF EndsWith(Get(doc, "file_path", <<>>), S_dot_md)
        THEN <<"<p>">> \o content \o <<"</p>">> ELSE content)

\* lines 458-482; fails when 'language' (ValueError) or 'url' (KeyError) is
\* missing
add_url_to_doc_UrlOnly(doc, cfg) ==
    IF "language" \notin DOMAIN doc \/ "url" \notin DOMAIN doc THEN Failure
    ELSE IF ~Get(Get(cfg.languages, doc["language"], EmptyDict),
                 "skip_language_path_in_url", FALSE)
    THEN Success(Put(doc, "url", doc["language"] \o S_slash \o doc["url"]))
    ELSE Success(doc)
add_url_to_doc(doc, cfg) ==
    LET d1 == IF "target_file" \in DOMAIN doc
              THEN Put(doc, "url", doc["target_file"]) ELSE doc
    IN IF "language" \notin DOMAIN d1 \/ "url" \notin DOMAIN d1 THEN Failure
       ELSE LET language == d1["language"]
                lang_config == Get(cfg.languages, language, EmptyDict)
            IN IF ~Get(lang_config, "skip_language_path_in_url", FALSE)
               THEN LET d2 == IF "target_file" \in DOMAIN d1
                              THEN Put(d1, "target_file",
                                       language \o S_slash \o d1["target_file"])
                              ELSE d1
                    IN Success(Put(d2, "url", language \o S_slash \o d1["url"]))
               ELSE Success(d1)

\* lines 485-509; date_html, date_iso and date_xml_feed are formats of the
\* same instant
add_dates_to_doc(doc) ==
    IF "date" \notin DOMAIN doc \/ doc["date"] = "" THEN Failure
    ELSE IF doc["date"] \notin {D_march, D_jan} THEN Failure
    ELSE Success(Put(Put(doc, "date", Instant(doc["date"])),
                     "date_iso", Instant(doc["date"])))

\* len(content.split()), line 516: the runs of characters other than " "
WordCount(content) ==
    Cardinality({i \in 1..Len(content) :
                    content[i] # " " /\ (i = 1 \/ content[i - 1] = " ")})

\* lines 512-525; cfg.words_per_minute is build.settings.
\* read_time_words_per_minute when the configuration sets it
add_read_time_to_doc_Unclamped(doc, cfg) ==
    Put(doc, "read_time",
        WordCount(Get(doc, "content", <<>>))
            \div Get(cfg, "words_per_minute", DefaultWordsPerMinute))
add_read_time_to_doc(doc, cfg) ==
    LET words_per_minute == Get(cfg, "words_per_minute", DefaultWordsPerMinute)
        minutes == WordCount(Get(doc, "content", <<>>)) \div words_per_minute
    IN Put(doc, "read_time", IF minutes >= 1 THEN minutes ELSE 1)

\* lines 412-420
enrich_doc(doc, body, cfg) ==
    LET u == add_url_to_doc(add_html_to_doc(body, doc), cfg)
    IN IF ~u.ok THEN Failure
       ELSE LET d == add_dates_to_doc(u.doc)
            IN IF ~d.ok THEN Failure
               ELSE Success(add_read_time_to_doc(d.doc, cfg))

\* what a process_single_doc worker does: it raises (line 345, outside the
\* try), or returns its documents, or returns [] from the except branch
Caught(item) == [raises |-> FALSE, docs |-> <<>>, caught |-> TRUE]
Returns(docs) == [raises |-> FALSE, docs |-> docs, caught |-> FALSE]

\* lines 368-371: the copy of the base document for one language
LangDoc_NoOverrides(doc, entry) ==
    Put(Put(doc, "language", entry.lang), "name", doc["name"] \o S_dash \o entry.lang)
LangDoc(doc, entry) ==
    Put(Put(Merge(doc, entry.overrides), "language", entry.lang),
        "name", doc["name"] \o S_dash \o entry.lang)

\* lines 341-384
process_single_doc(item, file, cfg) ==
    IF "file_path" \notin DOMAIN item
    THEN [raises |-> TRUE, docs |-> <<>>, caught |-> FALSE]
    ELSE IF ~file.readable THEN Caught(item)
    ELSE
      LET defaults == IF item["content_type"] = "posts"
                      THEN cfg.posts_defaults ELSE cfg.pages_defaults
          doc == Put(Merge(Merge(defaults, item), file.fm), "content", file.body)
      IN IF "languages" \in DOMAIN doc
         THEN LET ls == doc["languages"]
                  variant(k) == enrich_doc(LangDoc(doc, ls[k]), file.body, cfg)
              IN IF \E k \in 1..Len(ls) : ~variant(k).ok THEN Caught(item)
                 ELSE Returns([k \in 1..Len(ls) |-> variant(k).doc])
         ELSE LET e == enrich_doc(doc, file.body, cfg)
              IN IF e.ok THEN Returns(<<e.doc>>) ELSE Caught(item)

\* lines 528-553
add_navigation_links_to_docs_AnyLanguage(posts) ==
    [i \in 1..Len(posts) |->
        LET n == IF i = 1 THEN EmptyDict ELSE posts[i - 1]
            o == IF i = Len(posts) THEN EmptyDict ELSE posts[i + 1]
        IN Merge(posts[i],
                 [next_post_url |-> Get(n, "url", <<>>),
                  next_post_title |-> Get(n, "title", <<>>),
                  prev_post_url |-> Get(o, "url", <<>>),
                  prev_post_title |-> Get(o, "title", <<>>)])]
add_navigation_links_to_docs(posts) ==
    [i \in 1..Len(posts) |->
        LET lang(p) == Get(p, "language", S_en)
            newer == {j \in 1..Len(posts) : j < i /\ lang(posts[j]) = lang(posts[i])}
            older == {j \in 1..Len(posts) : j > i /\ lang(posts[j]) = lang(posts[i])}
            n == IF newer = {} THEN EmptyDict
                 ELSE posts[CHOOSE j \in newer : \A k \in newer : k <= j]
            o == IF older = {} THEN EmptyDict
                 ELSE posts[CHOOSE j \in older : \A k \in older : k >= j]
        IN Merge(posts[i],
                 [next_post_url |-> Get(n, "url", <<>>),
                  next_post_title |-> Get(n, "title", <<>>),
                  prev_post_url |-> Get(o, "url", <<>>),
                  prev_post_title |-> Get(o, "title", <<>>)])]

\* sorted(list(lang_tags)), line 610
RECURSIVE SortedTags(_)
SortedTags(S) ==
    IF S = {} THEN <<>>
    ELSE LET m == CHOOSE x \in S : \A y \in S \ {x} : StrLess(x, y)
         IN <<m>> \o SortedTags(S \ {m})

\* lines 578-612: content.pages.tags.items, as the sequence of
\* (language, sorted tags) in the order of the enabled languages
add_tags_to_config(posts, cfg) ==
    IF ~cfg.tags.enabled \/ cfg.tags.languages = <<>> THEN <<>>
    ELSE [k \in 1..Len(cfg.tags.languages) |->
            LET lang_code == cfg.tags.languages[k]
                lang_posts == {i \in 1..Len(posts) :
                                  Get(posts[i], "language", <<>>) = lang_code}
            IN [lang |-> lang_code,
                tags |-> SortedTags(UNION {Range(Get(posts[i], "tags", <<>>))
                                             : i \in lang_posts})]]

\* lines 646-659: the page synthesized for a tag of a language
TagPage_NoLanguagePath(tag, lang_code, cfg) ==
    [name |-> S_tag \o S_dash \o tag \o S_dash \o lang_code,
     url |-> Get(cfg.languages[lang_code], "tag_url_prefix", S_tag) \o S_slash \o tag,
     language |-> lang_code, tag |-> tag, content_type |-> "pages"]
TagPage(tag, lang_code, cfg) ==
    LET lang_config == cfg.languages[lang_code]
        tag_page ==
            [name |-> S_tag \o S_dash \o tag \o S_dash \o lang_code,
             title |-> <<"Tag: ">> \o tag,
             description |-> <<"Posts tagged with '">> \o tag \o <<"'">>,
             template |-> cfg.tags.template,
             url |-> Get(lang_config, "tag_url_prefix", S_tag) \o S_slash \o tag,
             language |-> lang_code,
             tag |-> tag,
             date |-> "now",
             content_type |-> "pages",
             html_content |-> <<"<!-- Tag page content will be generated by template -->">>]
    IN add_url_to_doc(tag_page, cfg).doc

RECURSIVE InsertAll(_, _)
InsertAll(items, docs) ==
    IF docs = <<>> THEN items
    ELSE InsertAll(DictInsert(items, Head(docs)), Tail(docs))

\* lines 615-664: the pages registry with the tag pages put in
add_tag_pages_to_config(pages, tag_items, cfg) ==
    IF ~cfg.tags.enabled THEN pages
    ELSE LET pagesOf(e) ==
                 IF e.lang \in DOMAIN cfg.languages
                 THEN [t \in 1..Len(e.tags) |-> TagPage(e.tags[t], e.lang, cfg)]
                 ELSE <<>>
         IN InsertAll(pages, Flatten([k \in 1..Len(tag_items) |-> pagesOf(tag_items[k])]))

\* lines 1352-1368, on one document: every str is stripped of leading and
\* trailing slashes, lists and dicts are walked (content_type, template and
\* date hold no slash and are left as they are)
RECURSIVE trim_slashes(_)
trim_slashes(doc) ==
    [k \in DOMAIN doc |->
        IF k \in {"name", "title", "url", "file_path", "target_file", "language",
                  "tag", "description", "nav_title", "next_post_url",
                  "next_post_title", "prev_post_url", "prev_post_title",
                  "content", "html_content"}
        THEN Strip(doc[k])
        ELSE IF k = "tags" THEN [t \in 1..Len(doc[k]) |-> Strip(doc[k][t])]
        ELSE IF k = "languages"
        THEN [j \in 1..Len(doc[k]) |->
                [lang |-> doc[k][j].lang, overrides |-> trim_slashes(doc[k][j].overrides)]]
        ELSE doc[k]]

TrimAll(docs) == [i \in 1..Len(docs) |-> trim_slashes(docs[i])]

\* line 679
TitleIn(doc) == Get(doc, "title", Get(doc, "name", <<"??">>))

\* line 689: all_urls.append(url)
Seen_Forget(all_urls, url) == all_urls
Seen(all_urls, url) == all_urls \cup {url}

\* lines 676-690: url_errors, given the urls seen so far
RECURSIVE UrlErrors(_, _)
UrlErrors(content, all_urls) ==
    IF content = <<>> THEN <<>>
    ELSE LET result == Head(content)
             url == Get(result, "url", <<>>)
             entry(kind) == [kind |-> kind, url |-> url,
                             content_type |-> Get(result, "content_type", "??"),
                             title |-> TitleIn(result)]
         IN IF url = <<>>
            THEN <<entry("missing")>> \o UrlErrors(Tail(content), all_urls)
            ELSE IF url \in all_urls
            THEN <<entry("duplicate")>> \o UrlErrors(Tail(content), all_urls)
            ELSE UrlErrors(Tail(content), Seen(all_urls, url))

\* lines 667-696: the entries of the ValueError, <<>> when none is raised
validate_content_urls_PostsOnly(posts, pages) == UrlErrors(posts, {})
validate_content_urls(posts, pages) == UrlErrors(posts \o pages, {})

-----------------------------------------------------------------------------
(* main() (src/gen.py 1391-1427), a full build                              *)

PhaseOrder == <<"config", "discovery", "processing", "render", "validation">>

\* the segments of a path below the output root: Path(output_dir) / p
RECURSIVE Segments(_)
Segments(p) ==
    IF p = <<>> THEN <<>>
    ELSE IF Head(p) = "/" THEN Segments(Tail(p))
    ELSE <<BeforeFirst(p, "/")>> \o Segments(DropFirst(p, Len(BeforeFirst(p, "/"))))

\* lines 916-940: the file save_doc writes for a document
OutputFileOf_AlwaysSlug(doc) ==
    Segments(Strip(Get(doc, "url", <<>>))) \o <<S_index>>
OutputFileOf(doc) ==
    IF Get(doc, "target_file", <<>>) # <<>>
    THEN Segments(doc["target_file"])
    ELSE Segments(Strip(Get(doc, "url", <<>>))) \o <<S_index>>

\* lines 987-1013: an empty index.html in every directory below the root
\* that has none
WithEmptyIndexFiles(files) ==
    files \cup {d \o <<S_index>> : d \in DirsOf(files)}

\* where main() goes when a phase returns or raises (lines 1419-1427)
AfterPhase_Continue(ok, next) == next
AfterPhase(ok, next) == IF ok THEN next ELSE "except"

MainInit ==
    /\ pc = "phase1"
    /\ started = <<>>
    /\ exit_code = -1
    /\ world = [cfg |-> EmptyDict]
    /\ posts_items = <<>>
    /\ pages_items = <<>>
    /\ build_error = <<>>
    /\ raised = "none"
    /\ dropped = {}
    /\ output = {<<<<"o", "l", "d", ".", "h", "t", "m", "l">>>>}

\* Phase 1, load_initial_config: raises when the config directory or a
\* required variable is missing or a YAML file does not parse
LoadConfig ==
    /\ pc = "phase1"
    /\ started' = Append(started, "config")
    /\ \E ok \in BOOLEAN,
          cfg \in {Config(TRUE, TRUE), Config(FALSE, TRUE), Config(TRUE, FALSE),
                   \* tag pages enabled for a language content.languages lacks
                   [Config(TRUE, TRUE) EXCEPT
                       !.languages = [l \in {S_en} |-> @[l]],
                       !.tags.languages = <<S_en, S_fi>>]} :
        /\ pc' = AfterPhase(ok, "phase2")
        /\ raised' = IF ok THEN "none" ELSE "config"
        /\ world' = IF ok THEN [world EXCEPT !.cfg = cfg] ELSE world
    /\ UNCHANGED <<exit_code, posts_items, pages_items, build_error, dropped, output>>

\* Phase 2, add_discovered_to_config: the registry gets a stub per content
\* file; raises when content/posts cannot be listed (line 222) or a worker
\* raises
Discover ==
    /\ pc = "phase2"
    /\ started' = Append(started, "discovery")
    /\ \E ok \in BOOLEAN, n \in 0..MaxDocs, orphan \in BOOLEAN :
        \E k \in 0..n :
          \* n content files, numbered with the k posts first
          LET stubs == [i \in 1..n |-> Stub(i, IF i <= k THEN "posts" ELSE "pages")]
          IN
            /\ pc' = AfterPhase(ok, "phase3")
            /\ raised' = IF ok THEN "none" ELSE "discovery"
            /\ posts_items' = IF ok THEN SelectSeq(stubs, LAMBDA x : x.content_type = "posts")
                              ELSE posts_items
            /\ pages_items' =
                 IF ok THEN (IF orphan THEN <<[name |-> S_feed, content_type |-> "pages"]>>
                                           ELSE <<>>)
                            \o SelectSeq(stubs, LAMBDA x : x.content_type = "pages")
                 ELSE pages_items
    /\ UNCHANGED <<exit_code, world, build_error, dropped, output>>


\* Phase 3, add_processed_content_to_config (lines 295-304) with
\* process_docs (lines 307-338): the workers' results arrive in the order
\* `order`; a raising worker makes parallelize raise
Process ==
    /\ pc = "phase3"
    /\ started' = Append(started, "processing")
    /\ LET cfg == world.cfg
           items_to_process == posts_items \o pages_items
           n == Len(items_to_process)
       IN \E files \in [1..n -> SourceFiles], order \in Permutations(1..n) :
          /\ \A i \in 1..n : "file_path" \notin DOMAIN items_to_process[i]
                                => files[i] = Unreadable
          \* the order of the results is of no effect when a worker raises
          /\ (\E i \in 1..n : "file_path" \notin DOMAIN items_to_process[i])
                => order = [k \in 1..n |-> k]
          /\ LET outs == [i \in 1..n |->
                            process_single_doc(items_to_process[i],
                                FileOf(items_to_process[i], files[i]), cfg)]
                 out(i) == outs[i]
                 results == Flatten([k \in 1..n |-> out(order[k]).docs])
                 errors == SelectSeq(results, LAMBDA d : "error" \in DOMAIN d)
                 found(t) == SelectSeq(results, LAMBDA d : d["content_type"] = t)
                 posts == add_navigation_links_to_docs(SortPosts(found("posts")))
                 pages == SortPages(found("pages"))
                 tag_items == add_tags_to_config(posts, cfg)
                 new_posts == TrimAll(DictOf(posts))
                 new_pages == TrimAll(add_tag_pages_to_config(DictOf(pages), tag_items, cfg))
                 url_errors == validate_content_urls(new_posts, new_pages)
             IN /\ UNCHANGED world
                /\ dropped' = {items_to_process[i]["name"] : i \in {j \in 1..n : out(j).caught}}
                /\ IF \E i \in 1..n : out(i).raises
                   THEN \* parallelize raises RuntimeError, line 1332
                        /\ pc' = AfterPhase(FALSE, "phase4")
                        /\ raised' = "processing"
                        /\ build_error' = <<[kind |-> "parallelize"]>>
                        /\ UNCHANGED <<posts_items, pages_items>>
                   ELSE IF errors # <<>>
                   THEN \* line 328
                        /\ pc' = AfterPhase(FALSE, "phase4")
                        /\ raised' = "processing"
                        /\ build_error' = <<[kind |-> "process"]>>
                        /\ UNCHANGED <<posts_items, pages_items>>
                   ELSE /\ posts_items' = new_posts
                        /\ pages_items' = new_pages
                        /\ pc' = AfterPhase(url_errors = <<>>, "phase4")
                        /\ raised' = IF url_errors = <<>> THEN "none" ELSE "processing"
                        /\ build_error' = url_errors
    /\ UNCHANGED <<exit_code, output>>

\* Phase 4, generate_site (lines 704-711): the output directory is emptied,
\* every document is rendered and saved; `bad` are the documents whose
\* rendering raises (at most one here)
Render ==
    /\ pc = "phase4"
    /\ started' = Append(started, "render")
    /\ LET docs == posts_items \o pages_items
       IN \E bad \in {{}} \cup {{i} : i \in 1..Len(docs)} :
            /\ pc' = AfterPhase(bad = {}, "phase5")
            /\ raised' = IF bad = {} THEN "none" ELSE "render"
            /\ LET written == {OutputFileOf(docs[i]) : i \in (1..Len(docs)) \ bad}
               IN output' = IF bad = {} THEN WithEmptyIndexFiles(written) ELSE written
    /\ UNCHANGED <<exit_code, world, posts_items, pages_items, build_error, dropped>>

\* Phase 5, validate_site (lines 1021-1075) under the validate_site setting,
\* with or without a broken link in the output; then the end of main()
Validate ==
    /\ pc = "phase5"
    /\ started' = Append(started, "validation")
    /\ \E validate_site \in BOOLEAN, broken \in BOOLEAN :
        LET fails == /\ validate_site
                     /\ HtmlFilesOf(output) # {}
                     /\ broken
        IN /\ pc' = AfterPhase(~fails, "done")
           /\ raised' = IF fails THEN "validation" ELSE "none"
           /\ exit_code' = IF fails THEN exit_code ELSE 0
    /\ UNCHANGED <<world, posts_items, pages_items, build_error, dropped, output>>

\* lines 1419-1427: sys.exit(1)
ExitOnError_CleansOutput ==
    /\ pc = "except"
    /\ pc' = "exited"
    /\ exit_code' = 1
    /\ output' = {}
    /\ UNCHANGED <<started, world, posts_items, pages_items, build_error, raised, dropped>>
ExitOnError ==
    /\ pc = "except"
    /\ pc' = "exited"
    /\ exit_code' = 1
    /\ UNCHANGED <<started, world, posts_items, pages_items, build_error, raised,
                   dropped, output>>

MainIdle ==
    /\ pc = "idle" /\ started = <<>> /\ exit_code = -1 /\ world = <<>>
    /\ posts_items = <<>> /\ pages_items = <<>> /\ build_error = <<>>
    /\ raised = "none" /\ dropped = {} /\ output = {}

-----------------------------------------------------------------------------
(* One content file through process_single_doc and save_doc                 *)

MaxBody == 5

\* the front matters of FrontMatters, and those with a target_file or with
\* a languages mapping of one or two languages
DocFrontMatters ==
    LET base == [language |-> S_en, date |-> D_march, url |-> U_a]
        entries == {[lang |-> l, overrides |-> o] :
                       l \in {S_en, S_fi},
                       o \in {EmptyDict, [url |-> U_b, title |-> T_x],
                               [date |-> "01.03.2024"]}}
    IN FrontMatters
       \cup {[language |-> l, date |-> D_march, target_file |-> S_feed] : l \in {S_en, S_fi}}
       \cup {[language |-> S_fi, date |-> D_march, url |-> U_a, target_file |-> S_feed],
             [date |-> D_march, target_file |-> S_feed]}
       \cup {Put(base, "languages", <<e>>) : e \in entries}
       \cup {Put(base, "languages", p) :
                p \in {<<e, f>> : e \in entries, f \in entries} \ {q \in entries \X entries : q[1].lang = q[2].lang}}

\* a content file of up to MaxBody characters of body, its stub and the
\* configuration, with or without read_time_words_per_minute
InitDoc ==
    /\ fn_in \in
         [item : {Stub(1, "posts"), Stub(1, "pages")},
          file : {[readable |-> TRUE, fm |-> f, body |-> b] :
                     f \in DocFrontMatters,
                     b \in UNION {[1..n -> {"w", " "}] : n \in 0..MaxBody}}
                 \cup {Unreadable},
          cfg : {Config(s, TRUE) : s \in BOOLEAN}
                \cup {Put(Config(s, TRUE), "words_per_minute", w) :
                         s \in BOOLEAN, w \in 1..2}]
    /\ fn_out = EmptyDict
    /\ MainIdle /\ ParIdle /\ DiscIdle /\ LinkIdle

\* the worker of process_docs runs for the item
ApplyProcess ==
    /\ "result" \notin DOMAIN fn_out
    /\ fn_out' = Put(fn_out, "result",
                     process_single_doc(fn_in.item, FileOf(fn_in.item, fn_in.file),
                                        fn_in.cfg))
    /\ UNCHANGED fn_in

\* trim_slashes_from_config and then save_doc for each document of the
\* item; <<>> stands for the ValueError of line 933
ApplySave ==
    /\ "result" \in DOMAIN fn_out
    /\ "saved" \notin DOMAIN fn_out
    /\ LET docs == fn_out["result"].docs
           saved(d) == IF Get(d, "target_file", <<>>) = <<>> /\ Get(d, "url", <<>>) = <<>>
                       THEN <<>> ELSE OutputFileOf(d)
       IN fn_out' = Put(Put(fn_out, "trimmed", TrimAll(docs)), "saved",
                        [k \in 1..Len(docs) |-> saved(trim_slashes(docs[k]))])
    /\ UNCHANGED fn_in

-----------------------------------------------------------------------------
(* The render workers of build_docs and the loop of build_single_file       *)

MaxBuildDocs == 2

\* the documents a build renders: a post, a post whose name holds the word
\* feed, and the feed page, each with content that holds a template
\* variable or does not and with a template that gives markup or gives
\* none; the template of the feed page reads the posts of the registry
BuildDocs ==
    {[name |-> n, html_content |-> h, template |-> t] :
        n \in {NameOf(1), S_feed, <<"f", "e", "e", "d", "b", "a", "c", "k">>},
        h \in {<<"<p>", "text", "</p>">>, <<"<p>", "{{ doc.name }}", "</p>">>},
        t \in {"page.html", "blank.html"}}

\* `any(item in doc_name for item in ["robots", "feed", "sitemap"])`,
\* lines 951 and 972
NamedLikeTextFile(doc_name) ==
    \/ Contains(doc_name, <<"r", "o", "b", "o", "t", "s">>)
    \/ Contains(doc_name, <<"f", "e", "e", "d">>)
    \/ Contains(doc_name, <<"s", "i", "t", "e", "m", "a", "p">>)

\* content_template.render(doc=doc, config=config), line 865: the
\* variables of the content are replaced by their values
RenderedContent(doc) ==
    [k \in 1..Len(doc.html_content) |->
        IF doc.html_content[k] = "{{ doc.name }}" THEN "name" ELSE doc.html_content[k]]

\* template.render(doc=doc, config=config), line 880: the page holds the
\* document's content and, for the feed template, the content of every
\* document the global `posts` holds at that moment
RenderedPage(doc, registry) ==
    [template |-> doc.template,
     content |-> doc.html_content,
     posts |-> IF doc.name = S_feed
               THEN [j \in 1..Len(registry) |-> registry[j].html_content] ELSE <<>>]

\* soup.find(), line 978: the page parses to at least one element
HasElements(page) == page.template # "blank.html"

BuildIdx == 1..Len(fn_in.docs)

\* a full build (build_docs) or a single file build (build_single_file)
\* of one or two documents with different names
InitBuild ==
    /\ fn_in \in [mode : {"full", "single"},
                  docs : {s \in UNION {[1..n -> BuildDocs] : n \in 1..MaxBuildDocs} :
                             \A i, j \in 1..Len(s) : i # j => s[i].name # s[j].name}]
    /\ fn_out = [docs |-> fn_in.docs,
                 pc |-> [i \in BuildIdx |-> "content"],
                 page |-> [i \in BuildIdx |-> <<>>],
                 validated |-> [i \in BuildIdx |-> FALSE],
                 written |-> [i \in BuildIdx |-> <<>>]]
    /\ MainIdle /\ ParIdle /\ DiscIdle /\ LinkIdle

\* the loop of build_single_file takes the documents one after the other;
\* the workers of build_docs run in any order
BuildTurn(i) ==
    fn_in.mode = "single" => \A j \in BuildIdx : j < i => fn_out.pc[j] \in {"done", "failed"}

\* lines 864-865 and 1247-1248: doc["html_content"] is assigned
BuildContent(i) ==
    /\ fn_out.pc[i] = "content"
    /\ BuildTurn(i)
    /\ fn_out' = [fn_out EXCEPT !.docs[i].html_content = RenderedContent(fn_out.docs[i]),
                                !.pc[i] = "page"]
    /\ UNCHANGED fn_in

\* lines 869-882 and 1252-1269; build_single_file goes on to save_doc
BuildPage(i) ==
    /\ fn_out.pc[i] = "page"
    /\ fn_out' = [fn_out EXCEPT !.page[i] = RenderedPage(fn_out.docs[i], fn_out.docs),
                                !.pc[i] = IF fn_in.mode = "full" THEN "validate" ELSE "save"]
    /\ UNCHANGED fn_in

\* line 884 with validate_doc, lines 967-984
BuildValidate(i) ==
    /\ fn_out.pc[i] = "validate"
    /\ fn_out' = IF NamedLikeTextFile(fn_out.docs[i].name)
                 THEN [fn_out EXCEPT !.pc[i] = "save"]
                 ELSE IF HasElements(fn_out.page[i])
                 THEN [fn_out EXCEPT !.pc[i] = "save", !.validated[i] = TRUE]
                 ELSE [fn_out EXCEPT !.pc[i] = "failed"]
    /\ UNCHANGED fn_in

\* lines 886 and 1271
BuildSave(i) ==
    /\ fn_out.pc[i] = "save"
    /\ fn_out' = [fn_out EXCEPT !.written[i] = fn_out.page[i], !.pc[i] = "done"]
    /\ UNCHANGED fn_in

-----------------------------------------------------------------------------
(* The posts registry process_docs builds (src/gen.py 330-335)              *)

MaxNavPosts == 3

\* up to MaxNavPosts processed posts in the order the workers returned
\* them, each with a url of its own; two files can give documents of one
\* name (a fan-out name '{stem}-{language}' that is another file's stem, or
\* a name in the front matter)
InitNav ==
    /\ fn_in \in UNION {[1..n -> [name : {NameOf(1), NameOf(2)},
                                  language : {S_en, S_fi},
                                  date : {20240101, 20240301}]]
                        : n \in 0..MaxNavPosts}
    /\ fn_out = EmptyDict
    /\ MainIdle /\ ParIdle /\ DiscIdle /\ LinkIdle

\* lines 330, 333 and 335, and trim_slashes_from_config after them
ApplyNav ==
    /\ fn_out = EmptyDict
    /\ LET posts == [k \in 1..Len(fn_in) |->
                       Merge(fn_in[k], [url |-> <<"u">> \o Tail(NameOf(k)),
                                        title |-> <<"t">> \o Tail(NameOf(k)),
                                        content_type |-> "posts"])]
       IN fn_out' = Put(fn_out, "posts",
                        TrimAll(DictOf(add_navigation_links_to_docs(SortPosts(posts)))))
    /\ UNCHANGED fn_in

-----------------------------------------------------------------------------
(* The output directory, from build.envs to clean_output_directory          *)

\* Path(s): absolute when s starts with a slash; Path("") is the current
\* working directory
PathOf(s) == [abs |-> StartsWith(s, S_slash), segs |-> Segments(s)]

\* lines 714-722: shutil.rmtree(output_path) removes every file below the
\* path when it exists, and the directory is made again
clean_output_directory(output_dir, files) ==
    LET output_path == PathOf(output_dir)
    IN {f \in files :
          ~(/\ f.abs = output_path.abs
            /\ Len(f.segs) > Len(output_path.segs)
            /\ SubSeq(f.segs, 1, Len(output_path.segs)) = output_path.segs)}

\* build.envs of the configuration files, the active build environment,
\* and the files there are: one in the working directory, one in its
\* directory out and one in the directory /out
InitClean ==
    /\ fn_in \in [envs : {EmptyDict,
                          [dev |-> [url |-> <<"u">>]],
                          [dev |-> [url |-> <<"u">>, output |-> <<"o", "u", "t">>]],
                          [dev |-> [url |-> <<"u">>, output |-> <<"/", "o", "u", "t">>]]},
                  build_env : {"dev", "prod"},
                  files : SUBSET {[abs |-> FALSE, segs |-> <<<<"g", "e", "n", ".", "p", "y">>>>],
                                  [abs |-> FALSE, segs |-> <<<<"o", "u", "t">>, S_index>>],
                                  [abs |-> TRUE, segs |-> <<<<"o", "u", "t">>, S_index>>]}]
    /\ fn_out = EmptyDict
    /\ MainIdle /\ ParIdle /\ DiscIdle /\ LinkIdle

\* lines 186-191 of add_yml_content_to_config
ApplyResolve ==
    /\ fn_out = EmptyDict
    /\ fn_out' = Put(fn_out, "output_dir",
                     Get(Get(fn_in.envs, fn_in.build_env, EmptyDict), "output", <<>>))
    /\ UNCHANGED fn_in

\* trim_slashes_from_config (lines 1352-1368) on env.output_dir
ApplyTrimEnv ==
    /\ DOMAIN fn_out = {"output_dir"}
    /\ fn_out' = Put(Put(fn_out, "output_dir", Strip(fn_out["output_dir"])),
                     "resolved", fn_out["output_dir"])
    /\ UNCHANGED fn_in

\* line 706 of generate_site
ApplyClean ==
    /\ DOMAIN fn_out = {"output_dir", "resolved"}
    /\ fn_out' = Put(fn_out, "files",
                     clean_output_directory(fn_out["output_dir"], fn_in.files))
    /\ UNCHANGED fn_in

-----------------------------------------------------------------------------
(* The sort of the pages in process_docs (src/gen.py 331)                   *)

MaxPages == 3

\* up to MaxPages processed pages in the order the workers returned them,
\* each with a nav_title or without one
InitSort ==
    /\ fn_in \in UNION {[1..n -> {[name |-> NameOf(1)]}
                                  \cup {[name |-> NameOf(1), nav_title |-> t] :
                                          t \in {<<"a">>, <<"b">>, <<"z", "z", "z", "z">>}}]
                        : n \in 0..MaxPages}
    /\ fn_out = EmptyDict
    /\ MainIdle /\ ParIdle /\ DiscIdle /\ LinkIdle

\* line 331
ApplySort ==
    /\ fn_out = EmptyDict
    /\ fn_out' = Put(fn_out, "pages", SortPages(fn_in))
    /\ UNCHANGED fn_in

-----------------------------------------------------------------------------
(* merge_config_dicts (src/gen.py 1287-1295)                                *)

MaxLeaf == 2

\* a configuration tree is a scalar leaf or a mapping from keys to trees
Leaf(n) == [map |-> FALSE, kids |-> EmptyDict, val |-> n]
Map(kids) == [map |-> TRUE, kids |-> kids, val |-> 0]

\* the trees with at most the key "a" at the top and at most the keys "x"
\* and "y" in a mapping below it
ConfigTrees ==
    LET leaves == {Leaf(n) : n \in 1..MaxLeaf}
        over(keys, values) == {Map(f) : f \in UNION {[S -> values] : S \in SUBSET keys}}
    IN over({"a"}, leaves \cup over({"x", "y"}, leaves))

RECURSIVE merge_config_dicts(_, _)

\* lines 1290-1295: what target[key] is after the loop body ran for
\* (key, value); `old` is <<>> when the key is not in target
MergedValue_Overwrite(old, value) == value
MergedValue(old, value) ==
    IF old # <<>> /\ old.map /\ value.map
    THEN merge_config_dicts(old, value)
    ELSE value

\* lines 1287-1295: the loop over source.items(), one key at a time
merge_config_dicts_FirstKeyOnly(target, source) ==
    IF DOMAIN source.kids = {} THEN target
    ELSE LET key == CHOOSE k \in DOMAIN source.kids : TRUE
         IN Map(Put(target.kids, key,
                    MergedValue(Get(target.kids, key, <<>>), source.kids[key])))
merge_config_dicts(target, source) ==
    IF DOMAIN source.kids = {} THEN target
    ELSE LET key == CHOOSE k \in DOMAIN source.kids : TRUE
             rest == [k \in DOMAIN source.kids \ {key} |-> source.kids[k]]
         IN merge_config_dicts(
                Map(Put(target.kids, key,
                        MergedValue(Get(target.kids, key, <<>>), source.kids[key]))),
                Map(rest))

\* three trees a, b, c; fn_out collects ab = a merged with b, bc = b merged
\* with c, left = ab merged with c and right = a merged with bc
\* lines 160-167 of add_yml_content_to_config: a mapping with the target key
\* as its single key gives that key's value
UnwrappedContent_AnySingleKey(yaml_content, target_key) ==
    IF yaml_content.map /\ Cardinality(DOMAIN yaml_content.kids) = 1
    THEN yaml_content.kids[CHOOSE k \in DOMAIN yaml_content.kids : TRUE]
    ELSE yaml_content
UnwrappedContent(yaml_content, target_key) ==
    IF yaml_content.map /\ Cardinality(DOMAIN yaml_content.kids) = 1
       /\ target_key \in DOMAIN yaml_content.kids
    THEN yaml_content.kids[target_key]
    ELSE yaml_content

\* lines 151, 169-177: nothing is loaded from an empty file or mapping;
\* otherwise the content is merged into a mapping at the target key or
\* assigned there
LoadYaml(current, target_key, yaml_content) ==
    IF yaml_content = Map(EmptyDict) THEN current
    ELSE Map(Put(current.kids, target_key,
                 MergedValue(Get(current.kids, target_key, <<>>),
                             UnwrappedContent(yaml_content, target_key))))

\* the mapping the key path leads to, the last key of the path and the
\* parsed content of the YAML file
InitYaml ==
    /\ fn_in \in [current : ConfigTrees,
                  target_key : {"a", "x"},
                  yaml_content : ConfigTrees
                                 \cup {t.kids["a"] : t \in {u \in ConfigTrees : u.kids # EmptyDict}}]
    /\ fn_out = EmptyDict
    /\ MainIdle /\ ParIdle /\ DiscIdle /\ LinkIdle

ApplyLoadYaml ==
    /\ fn_out = EmptyDict
    /\ fn_out' = Put(fn_out, "loaded",
                     LoadYaml(fn_in.current, fn_in.target_key, fn_in.yaml_content))
    /\ UNCHANGED fn_in

InitMerge ==
    /\ fn_in \in [{"a", "b", "c"} -> ConfigTrees]
    /\ fn_out = EmptyDict
    /\ MainIdle /\ ParIdle /\ DiscIdle /\ LinkIdle

ApplyMerge(which) ==
    /\ which \notin DOMAIN fn_out
    /\ which = "left" => "ab" \in DOMAIN fn_out
    /\ which = "right" => "bc" \in DOMAIN fn_out
    /\ fn_out' = Put(fn_out, which,
                     CASE which = "ab" -> merge_config_dicts(fn_in["a"], fn_in["b"])
                       [] which = "bc" -> merge_config_dicts(fn_in["b"], fn_in["c"])
                       [] which = "left" -> merge_config_dicts(fn_out["ab"], fn_in["c"])
                       [] which = "right" -> merge_config_dicts(fn_in["a"], fn_out["bc"]))
    /\ UNCHANGED fn_in

FnIdle == fn_in = <<>> /\ fn_out = <<>>

-----------------------------------------------------------------------------
(* The specifications                                                       *)

Next ==
    \/ LoadConfig /\ UNCHANGED <<parVars, discVars, linkVars, fnVars>>
    \/ Discover /\ UNCHANGED <<parVars, discVars, linkVars, fnVars>>
    \/ Process /\ UNCHANGED <<parVars, discVars, linkVars, fnVars>>
    \/ Render /\ UNCHANGED <<parVars, discVars, linkVars, fnVars>>
    \/ Validate /\ UNCHANGED <<parVars, discVars, linkVars, fnVars>>
    \/ ExitOnError /\ UNCHANGED <<parVars, discVars, linkVars, fnVars>>

Init == MainInit /\ ParIdle /\ DiscIdle /\ LinkIdle /\ FnIdle

Spec == Init /\ [][Next]_vars

NextPar ==
    \/ ParEmpty /\ UNCHANGED <<mainVars, discVars, linkVars, fnVars>>
    \/ ParSubmit /\ UNCHANGED <<mainVars, discVars, linkVars, fnVars>>
    \/ (\E i \in ParIdx : WorkerStart(i)) /\ UNCHANGED <<mainVars, discVars, linkVars, fnVars>>
    \/ (\E i \in ParIdx : WorkerFinish(i)) /\ UNCHANGED <<mainVars, discVars, linkVars, fnVars>>
    \/ (\E i \in ParIdx : Collect(i)) /\ UNCHANGED <<mainVars, discVars, linkVars, fnVars>>
    \/ CollectEnd /\ UNCHANGED <<mainVars, discVars, linkVars, fnVars>>
    \/ ParReturn /\ UNCHANGED <<mainVars, discVars, linkVars, fnVars>>
    \/ ParRaise /\ UNCHANGED <<mainVars, discVars, linkVars, fnVars>>

InitPar == ParInit /\ MainIdle /\ DiscIdle /\ LinkIdle /\ FnIdle

SpecPar == InitPar /\ [][NextPar]_vars

NextDisc ==
    \/ (\E w \in DiscIdx : DiscStart(w)) /\ UNCHANGED <<mainVars, parVars, linkVars, fnVars>>
    \/ (\E w \in DiscIdx : DiscCheck(w)) /\ UNCHANGED <<mainVars, parVars, linkVars, fnVars>>
    \/ (\E w \in DiscIdx : DiscWrite(w)) /\ UNCHANGED <<mainVars, parVars, linkVars, fnVars>>
    \/ (\E w \in DiscIdx : DiscExtend(w)) /\ UNCHANGED <<mainVars, parVars, linkVars, fnVars>>

\* discovery runs under the max_workers of the configuration
InitDisc ==
    /\ DiscInit /\ MainIdle /\ LinkIdle /\ FnIdle
    /\ par_pc = "idle" /\ par_items = <<>>
    /\ par_call \in [phase : {"discovery"}, configured : {1, DefaultMaxWorkers}]
    /\ par_max = MaxWorkersOf(par_call.phase, par_call.configured)
    /\ par_state = <<>> /\ par_yielded = {} /\ par_results = <<>>
    /\ par_ret = NoReturn /\ par_calls = <<>>

SpecDisc == InitDisc /\ [][NextDisc]_vars

NextLink ==
    \/ LinkDisabled /\ UNCHANGED <<mainVars, parVars, discVars, fnVars>>
    \/ LinkScan /\ UNCHANGED <<mainVars, parVars, discVars, fnVars>>
    \/ (\E f \in FileUniverse : LinkCheck(f)) /\ UNCHANGED <<mainVars, parVars, discVars, fnVars>>
    \/ LinkFinish /\ UNCHANGED <<mainVars, parVars, discVars, fnVars>>

InitLink == LinkInit /\ MainIdle /\ ParIdle /\ DiscIdle /\ FnIdle

SpecLink == InitLink /\ [][NextLink]_vars

NextDoc ==
    \/ ApplyProcess /\ UNCHANGED <<mainVars, parVars, discVars, linkVars>>
    \/ ApplySave /\ UNCHANGED <<mainVars, parVars, discVars, linkVars>>

SpecDoc == InitDoc /\ [][NextDoc]_vars

NextSort == ApplySort /\ UNCHANGED <<mainVars, parVars, discVars, linkVars>>

SpecSort == InitSort /\ [][NextSort]_vars

NextYaml == ApplyLoadYaml /\ UNCHANGED <<mainVars, parVars, discVars, linkVars>>

SpecYaml == InitYaml /\ [][NextYaml]_vars

NextBuild ==
    \/ (\E i \in BuildIdx : BuildContent(i)) /\ UNCHANGED <<mainVars, parVars, discVars, linkVars>>
    \/ (\E i \in BuildIdx : BuildPage(i)) /\ UNCHANGED <<mainVars, parVars, discVars, linkVars>>
    \/ (\E i \in BuildIdx : BuildValidate(i)) /\ UNCHANGED <<mainVars, parVars, discVars, linkVars>>
    \/ (\E i \in BuildIdx : BuildSave(i)) /\ UNCHANGED <<mainVars, parVars, discVars, linkVars>>

SpecBuild == InitBuild /\ [][NextBuild]_vars

NextNav == ApplyNav /\ UNCHANGED <<mainVars, parVars, discVars, linkVars>>

SpecNav == InitNav /\ [][NextNav]_vars

NextClean ==
    \/ ApplyResolve /\ UNCHANGED <<mainVars, parVars, discVars, linkVars>>
    \/ ApplyTrimEnv /\ UNCHANGED <<mainVars, parVars, discVars, linkVars>>
    \/ ApplyClean /\ UNCHANGED <<mainVars, parVars, discVars, linkVars>>

SpecClean == InitClean /\ [][NextClean]_vars

NextMerge ==
    \/ ApplyMerge("ab") /\ UNCHANGED <<mainVars, parVars, discVars, linkVars>>
    \/ ApplyMerge("bc") /\ UNCHANGED <<mainVars, parVars, discVars, linkVars>>
    \/ ApplyMerge("left") /\ UNCHANGED <<mainVars, parVars, discVars, linkVars>>
    \/ ApplyMerge("right") /\ UNCHANGED <<mainVars, parVars, discVars, linkVars>>

SpecMerge == InitMerge /\ [][NextMerge]_vars

-----------------------------------------------------------------------------
(* Properties                                                               *)

AllDocs == posts_items \o pages_items
UrlOf(d) == Get(d, "url", <<>>)

\* add_processed_content_to_config has returned
ProcessingCompleted == Len(started) >= 3 /\ raised # "processing"

\* C1: if the processing of any discovered item fails, the processing phase
\* ends in failure and the render phase is never reached; a failed item is
\* never dropped while the build goes on.
C1_FailedItemFailsBuild ==
    dropped # {} =>
        /\ raised = "processing"
        /\ pc \in {"except", "exited"}
        /\ "render" \notin Range(started)

\* C2: the phases run in the order configuration, discovery, processing,
\* render, validation; a phase starts only after the previous one returned;
\* once a phase raises no later phase starts and the exit status is
\* non-zero.
C2_PhaseOrder ==
    /\ started = SubSeq(PhaseOrder, 1, Len(started))
    /\ raised # "none" =>
          /\ started # <<>>
          /\ started[Len(started)] = raised
          /\ pc \in {"except", "exited"}
    /\ pc \in {"except", "exited"} => raised # "none"
    /\ pc = "exited" => exit_code = 1
    /\ exit_code = 1 => pc = "exited"
    /\ exit_code = 0 => (pc = "done" /\ started = PhaseOrder /\ raised = "none")

C2_Witness ==
    /\ pc = "exited"
    /\ raised = "processing"
    /\ started = <<"config", "discovery", "processing">>
    /\ exit_code = 1

\* C3: whenever the processing phase completes without error, every post
\* and page of the registry, tag pages included, has a non-empty url and no
\* two of them have the same url.
C3_UrlsUniqueAfterProcessing ==
    ProcessingCompleted =>
        /\ \A i \in 1..Len(AllDocs) : UrlOf(AllDocs[i]) # <<>>
        /\ \A i, j \in 1..Len(AllDocs) :
              i # j => UrlOf(AllDocs[i]) # UrlOf(AllDocs[j])

C3_Witness ==
    /\ ProcessingCompleted
    /\ Len(posts_items) >= 2
    /\ \E i \in 1..Len(pages_items) : "tag" \in DOMAIN pages_items[i]

\* two posts of the registry, the first before the second, with the same
\* non-empty url
SameUrlPosts(i, j) ==
    /\ i < j
    /\ UrlOf(posts_items[i]) # <<>>
    /\ UrlOf(posts_items[i]) = UrlOf(posts_items[j])

Names(title) ==
    \E e \in Range(build_error) :
        e.kind = "duplicate" /\ e.title = title

\* C4 as claimed: when two posts have the same url, validate_content_urls
\* fails with a duplicate-URL error that names the titles of both posts.
C4_BothTitlesNamed ==
    \A i, j \in 1..Len(posts_items) :
        SameUrlPosts(i, j) =>
            /\ raised = "processing"
            /\ Names(TitleIn(posts_items[i]))
            /\ Names(TitleIn(posts_items[j]))

\* C4 as amended: when two posts have the same url, validate_content_urls
\* fails with a duplicate-URL error that names the url and the title of the
\* later post; the first post with a url gets no entry, so the posts entries
\* for a url are one fewer than the posts that have it.
C4_LaterTitleNamed ==
    \A i, j \in 1..Len(posts_items) :
        SameUrlPosts(i, j) =>
            LET u == UrlOf(posts_items[j])
                entries == {k \in 1..Len(build_error) :
                               /\ build_error[k].kind = "duplicate"
                               /\ build_error[k].content_type = "posts"
                               /\ build_error[k].url = u}
                holders == {k \in 1..Len(posts_items) : UrlOf(posts_items[k]) = u}
            IN /\ raised = "processing"
               /\ \E k \in entries : build_error[k].title = TitleIn(posts_items[j])
               /\ Cardinality(entries) = Cardinality(holders) - 1

C4_Witness ==
    /\ raised = "processing"
    /\ \E i, j \in 1..Len(posts_items) :
          /\ SameUrlPosts(i, j)
          /\ TitleIn(posts_items[i]) # TitleIn(posts_items[j])

\* C5: if a worker raises, parallelize fails and returns no results, and it
\* fails only after every submitted task has finished: no task is still
\* running or unstarted, and none was cancelled.
C5_FailsAfterAllFinished ==
    /\ par_pc = "raised" =>
          /\ \A i \in ParIdx : ParFinished(i) /\ par_calls[i] = 1
          /\ par_ret = NoReturn
          /\ \E i \in ParIdx : par_items[i] = "raise"
    /\ (\E i \in ParIdx : par_items[i] = "raise") => par_pc # "returned"
    /\ ((\E i \in ParIdx : par_items[i] = "raise") /\ ~ENABLED NextPar)
          => par_pc = "raised"

C5_Witness ==
    /\ par_pc = "raised"
    /\ Len(par_items) = MaxParItems
    /\ par_items[1] = "raise"
    /\ par_yielded = {1}
    /\ \A i \in ParIdx : i # 1 => par_state[i] = "done"

\* C6: when no worker raises, parallelize returns exactly the multiset of
\* the truthy return values, each worker having run once; for an empty list
\* it returns an empty list.
C6_ReturnsTruthyResults ==
    /\ (par_pc = "returned" /\ \A i \in ParIdx : par_items[i] # "raise") =>
          /\ BagOfSeq(par_ret)
               = BagOfSeq(SelectSeq(par_items, LAMBDA v : v # ""))
          /\ \A i \in ParIdx : par_calls[i] = 1
          /\ par_items = <<>> => par_ret = <<>>
    /\ ((\A i \in ParIdx : par_items[i] # "raise") /\ ~ENABLED NextPar)
          => par_pc = "returned"

C6_Witness ==
    /\ par_pc = "returned"
    /\ Len(par_ret) = 2
    /\ par_ret[1] = par_ret[2]
    /\ "" \in Range(par_items)

\* the registry keys and lists worker w has written
WrittenBy(w) == {e.target : e \in {x \in disc_log : x.w = w}}

\* C7: no two concurrently running scan_single_dir workers write the same
\* registry key or append to the same asset list.
C7_DisjointWrites ==
    \A v, w \in DiscRunning : v # w => WrittenBy(v) \cap WrittenBy(w) = {}

SitePagesPath == <<"site", "content", "pages">>
ThemePagesPath == <<"theme", "content", "pages">>
HasStem(path, stem) ==
    \E w \in DiscIdx : disc_dirs[w].path = path /\ stem \in disc_dirs[w].stems

\* C8: when the site pages directory and the theme pages directory both
\* hold a content file of the same stem, the stub left after discovery has
\* the site file's file_path.
C8_SiteStubWins ==
    DiscDone =>
        \A stem \in Stems :
            (HasStem(SitePagesPath, stem) /\ HasStem(ThemePagesPath, stem)) =>
                disc_items[<<"items", "pages", stem>>].file_path
                    = SitePagesPath \o <<stem>>

\* C9: with about/index.html in the output, is_valid_url accepts '/about/',
\* '/about' and '/about/index.html': the three normalize to the same path
\* and that path is in the valid-URL set.
C9_AboutLinksAccepted ==
    (link_pc \in {"checking", "done", "raised"} /\ link_world.validate_site
        /\ F_about_index \in link_world.files) =>
        \A u \in {L_about_slash, L_about, L_about_index} :
            /\ is_valid_url(u, link_valid, link_world.base_url)
            /\ NormalizedPath(u, link_world.base_url)
                 = NormalizedPath(L_about, link_world.base_url)
            /\ NormalizedPath(u, link_world.base_url) \in link_valid

\* C10: with validation enabled, every link of an HTML file that does not
\* resolve is reported exactly once for that file, under the file's name;
\* validate_site raises after every HTML file was checked once, with the
\* broken links of all files in one list, and raises iff the list is not
\* empty.
C10_BrokenLinksReportedOnce ==
    (link_pc \in {"done", "raised"} /\ link_world.validate_site) =>
        /\ \A f \in link_html : link_checked[f] = 1
        /\ \A f \in link_html : \A u \in link_world.pages[f].links :
              ~is_valid_url(u, link_valid, link_world.base_url) =>
                  Cardinality({k \in 1..Len(link_error) :
                                  link_error[k] = [url |-> u, doc |-> DocName(f)]}) = 1
        /\ link_pc = "raised" <=> link_error # <<>>

\* the relative paths of what exists in the output tree: its directories
\* below the root and its files
ExistingDirs == {Join(d) : d \in DirsOf(link_world.files)}
ExistingFiles(index) == {Join(f) : f \in {g \in link_world.files : IsIndex(g) = index}}
ValidUrlsBuilt == link_pc \in {"checking", "done", "raised"} /\ link_world.validate_site

\* C11 as claimed: the valid-URL set is exactly the paths that exist in the
\* output: every element is an existing directory or non-index file (or the
\* empty path for a root index.html), every existing directory and
\* non-index file is an element.
C11_ExactlyExistingPaths ==
    ValidUrlsBuilt =>
        /\ \A u \in link_valid :
              \/ u \in ExistingDirs \cup ExistingFiles(FALSE)
              \/ u = <<>> /\ <<S_index>> \in link_world.files
        /\ ExistingDirs \cup ExistingFiles(FALSE) \subseteq link_valid

\* C11 as amended: the same, except that the path "pub" is always an
\* element, whether or not it exists in the output.
C11_ExistingPathsAndPub ==
    ValidUrlsBuilt =>
        /\ \A u \in link_valid :
              \/ u \in ExistingDirs \cup ExistingFiles(FALSE)
              \/ u = <<>> /\ <<S_index>> \in link_world.files
              \/ u = <<"p", "u", "b">>
        /\ ExistingDirs \cup ExistingFiles(FALSE) \subseteq link_valid
        /\ <<"p", "u", "b">> \in link_valid
        /\ link_valid \cap ExistingFiles(TRUE) = {}

C11_Witness ==
    /\ ValidUrlsBuilt
    /\ link_world.files = FileUniverse
    /\ Cardinality(link_valid) = 4

\* a url that is neither site-relative nor prefixed by the site's base URL
IsExternal(u, base) ==
    /\ ~StartsWith(u, S_slash) /\ ~StartsWith(u, S_dot_slash)
    /\ ~StartsWith(u, S_up_slash)
    /\ ~(base # <<>> /\ StartsWith(u, base))

\* C12: a url that neither starts with '/', './' or '../' nor is prefixed by
\* the base URL is accepted by is_valid_url whatever the valid-URL set
\* holds, for every base URL including the empty one, and is never reported
\* as a broken link.
C12_ExternalLinksAccepted ==
    link_pc # "idle" =>
        \A u \in LinkUniverse :
            IsExternal(u, link_world.base_url) =>
                /\ is_valid_url(u, {}, link_world.base_url)
                /\ is_valid_url(u, link_valid, link_world.base_url)
                /\ \A k \in 1..Len(link_error) : link_error[k].url # u

\* the trees of the examples: {a: {x: 1}}, {a: {y: 2}}, {a: 1}, {a: {x: 1, y: 2}}
T_ax1 == Map([k \in {"a"} |-> Map([j \in {"x"} |-> Leaf(1)])])
T_ay2 == Map([k \in {"a"} |-> Map([j \in {"y"} |-> Leaf(2)])])
T_a1 == Map([k \in {"a"} |-> Leaf(1)])
T_ax1y2 == Map([k \in {"a"} |-> Map([j \in {"x", "y"} |-> IF j = "x" THEN Leaf(1) ELSE Leaf(2)])])

\* C13: after merge_config_dicts(target, source) the target holds, for every
\* key of source, the recursive merge of the two values when both are
\* mappings and the source value otherwise; keys of target alone are kept.
\* Below the key "a" the values of a mapping are scalars, so the recursive
\* merge there is the target mapping overwritten key by key.
C13_MergeRule ==
    "ab" \in DOMAIN fn_out =>
        LET target == fn_in["a"].kids
            source == fn_in["b"].kids
            out == fn_out["ab"]
        IN /\ out.map
           /\ DOMAIN out.kids = DOMAIN target \cup DOMAIN source
           /\ \A k \in DOMAIN source :
                out.kids[k] =
                    IF k \in DOMAIN target /\ target[k].map /\ source[k].map
                    THEN Map(Merge(target[k].kids, source[k].kids))
                    ELSE source[k]
           /\ \A k \in DOMAIN target \ DOMAIN source : out.kids[k] = target[k]
           /\ (fn_in["a"] = T_ax1 /\ fn_in["b"] = T_ay2) => out = T_ax1y2
           /\ (fn_in["a"] = T_a1 /\ fn_in["b"] = T_ay2) => out = T_ay2

C13_Witness ==
    /\ "ab" \in DOMAIN fn_out
    /\ fn_in["a"] = T_ax1 /\ fn_in["b"] = T_ay2
    /\ fn_out["ab"] = T_ax1y2

\* C14 as claimed: merging b into a and then c into the result gives the
\* same tree as merging into a the result of merging c into b.
C14_MergeAssociative ==
    {"left", "right"} \subseteq DOMAIN fn_out => fn_out["left"] = fn_out["right"]

\* a key path at which a and c hold mappings and b holds a scalar
RECURSIVE ScalarBetweenMaps(_, _, _)
ScalarBetweenMaps(a, b, c) ==
    \E k \in DOMAIN a.kids \cap DOMAIN b.kids \cap DOMAIN c.kids :
        /\ a.kids[k].map /\ c.kids[k].map
        /\ ~b.kids[k].map \/ ScalarBetweenMaps(a.kids[k], b.kids[k], c.kids[k])

\* C14 as amended: the two orders give the same tree unless at some key
\* path a and c hold mappings and b holds a scalar; for a = {a: {x: 1}},
\* b = {a: 1}, c = {a: {y: 2}} the first order gives {a: {y: 2}} and the
\* second {a: {x: 1, y: 2}}.
C14_MergeAssociativeOnMaps ==
    {"left", "right"} \subseteq DOMAIN fn_out =>
        /\ ~ScalarBetweenMaps(fn_in["a"], fn_in["b"], fn_in["c"])
              => fn_out["left"] = fn_out["right"]
        /\ (fn_in["a"] = T_ax1 /\ fn_in["b"] = T_a1 /\ fn_in["c"] = T_ay2)
              => (fn_out["left"] = T_ay2 /\ fn_out["right"] = T_ax1y2)

C14_Witness ==
    /\ {"left", "right"} \subseteq DOMAIN fn_out
    /\ fn_in["a"] = T_ax1 /\ fn_in["b"] = T_ay2 /\ fn_in["c"] = T_ax1
    /\ fn_out["left"] = T_ax1y2
    /\ fn_out["right"] = T_ax1y2


\* a document without some of its fields
Without(d, keys) == [x \in DOMAIN d \ keys |-> d[x]]

\* the documents process_single_doc returned for the content file
DocResult == fn_out["result"].docs

\* the content file with the language L and the overrides of one entry of
\* its languages mapping written into the front matter itself
SingleLanguageFile(entry) ==
    LET f == FileOf(fn_in.item, fn_in.file)
    IN [f EXCEPT !.fm = Put(Merge(Without(@, {"languages"}), entry.overrides),
                            "language", entry.lang)]

WordsIn(body) ==
    Cardinality({i \in 1..Len(body) :
                    body[i] # " " /\ (i = Len(body) \/ body[i + 1] = " ")})

\* C20: with w the configured words per minute (200 when not configured)
\* and n the number of whitespace-separated words of the body, every
\* document's read_time is a natural number r >= 1; r = 1 when n < w and
\* r * w <= n < (r + 1) * w otherwise, that is r = max(1, n // w).
C20_ReadTime ==
    "result" \in DOMAIN fn_out =>
        \A k \in 1..Len(DocResult) :
            LET w == IF "words_per_minute" \in DOMAIN fn_in.cfg
                     THEN fn_in.cfg["words_per_minute"] ELSE 200
                n == WordsIn(fn_in.file.body)
                r == DocResult[k]["read_time"]
            IN /\ r \in Nat
               /\ r >= 1
               /\ n < w => r = 1
               /\ n >= w => (r * w <= n /\ n < (r + 1) * w)

C20_Witness ==
    /\ "result" \in DOMAIN fn_out
    /\ Len(DocResult) = 1
    /\ "words_per_minute" \in DOMAIN fn_in.cfg
    /\ fn_in.cfg["words_per_minute"] = 2
    /\ WordsIn(fn_in.file.body) = 3
    /\ DocResult[1]["read_time"] = 1


\* the content file names feed.xml as its target_file and was processed
\* into one document, which save_doc has written
FeedSaved ==
    /\ "saved" \in DOMAIN fn_out
    /\ fn_in.file.readable
    /\ Get(fn_in.file.fm, "target_file", <<>>) = S_feed
    /\ Len(DocResult) = 1

\* C17 as claimed: the document is written at feed.xml in the output root.
C17_FeedAtOutputRoot ==
    FeedSaved => fn_out["saved"][1] = <<S_feed>>

\* C17 as amended: the document is written at feed.xml in the output root
\* when its language skips the language path in urls and at
\* {language}/feed.xml otherwise (add_url_to_doc prefixes target_file as it
\* prefixes url); in neither case at index.html in a directory named
\* after its url.
C17_FeedAtTargetFile ==
    FeedSaved =>
        LET language == DocResult[1]["language"]
            skips == Get(Get(fn_in.cfg["languages"], language, EmptyDict),
                         "skip_language_path_in_url", FALSE)
            written == fn_out["saved"][1]
        IN /\ written = (IF skips THEN <<>> ELSE <<language>>) \o <<S_feed>>
           /\ written[Len(written)] # S_index
           /\ written # Segments(DocResult[1]["url"]) \o <<S_index>>

C17_Witness ==
    /\ FeedSaved
    /\ DocResult[1]["language"] = S_fi
    /\ fn_out["saved"][1] = <<S_fi, S_feed>>


\* the posts of the registry in one language, in the order of the registry
PostsIn(language) == SelectSeq(posts_items, LAMBDA p : p["language"] = language)

\* C16: after process_docs the posts of each language are in the registry
\* by date descending; the first of them has empty next_post_url and
\* next_post_title, the last has empty prev_post_url and prev_post_title,
\* and every other next_* and prev_* is the url and title of the post
\* before and after it in its language; no post's links are the url and
\* title of a post of another language.
C16_NavigationLinks ==
    ProcessingCompleted =>
        /\ \A language \in {S_en, S_fi} :
             LET group == PostsIn(language)
                 N == Len(group)
                 field(i, name) == IF i \in 1..N THEN group[i][name] ELSE <<>>
             IN \A i \in 1..N :
                  /\ i < N => group[i]["date"] >= group[i + 1]["date"]
                  /\ group[i]["next_post_url"] = field(i - 1, "url")
                  /\ group[i]["next_post_title"] = field(i - 1, "title")
                  /\ group[i]["prev_post_url"] = field(i + 1, "url")
                  /\ group[i]["prev_post_title"] = field(i + 1, "title")
        /\ \A i, j \in 1..Len(posts_items) :
             posts_items[i]["language"] # posts_items[j]["language"] =>
                /\ posts_items[i]["next_post_url"] # posts_items[j]["url"]
                /\ posts_items[i]["prev_post_url"] # posts_items[j]["url"]

\* three posts, the second in another language than the first and the
\* third, and the third linked to the first
C16_Witness ==
    /\ ProcessingCompleted
    /\ Len(posts_items) = 3
    /\ posts_items[1]["language"] = S_en
    /\ posts_items[2]["language"] = S_fi
    /\ posts_items[3]["language"] = S_en
    /\ posts_items[3]["next_post_url"] = posts_items[1]["url"]
    /\ posts_items[1]["prev_post_url"] = posts_items[3]["url"]
    /\ posts_items[2]["next_post_url"] = <<>>
    /\ posts_items[2]["prev_post_url"] = <<>>


\* generate_site has returned without raising
SiteGenerated == Len(started) >= 4 /\ raised # "render" /\ pc # "phase4"

\* C18: after generate_site every directory of a non-empty output tree,
\* the output root included, holds an index.html.
C18_IndexInEveryDirectory ==
    (SiteGenerated /\ output # {}) =>
        \A d \in DirsOf(output) \cup {<<>>} : d \o <<S_index>> \in output


\* C19: in every phase that calls parallelize, the workers running at the
\* same time are never more than the configured max_workers.
C19_ConfiguredBoundInEveryPhase ==
    par_call.phase \in Phases =>
        Cardinality({i \in ParIdx : par_state[i] = "running"}) <= par_call.configured


\* the document process_single_doc builds from the content file before it
\* is enriched: the defaults of its type, the stub, the front matter
BaseDoc ==
    Merge(Merge(IF fn_in.item["content_type"] = "posts"
                THEN fn_in.cfg["posts_defaults"] ELSE fn_in.cfg["pages_defaults"],
                fn_in.item),
          FileOf(fn_in.item, fn_in.file).fm)

\* C21: for a file without a languages mapping, a document without
\* language fails and none is returned; otherwise url starts from
\* target_file when there is one and from the front matter's url when
\* there is none, and url and target_file both get '{language}/' in front
\* unless the language's skip_language_path_in_url is true, in which case
\* both stay as they are.
C21_UrlAndTargetFilePrefixed ==
    ("result" \in DOMAIN fn_out /\ fn_in.file.readable
     /\ "languages" \notin DOMAIN BaseDoc) =>
        IF "language" \notin DOMAIN BaseDoc
        THEN fn_out["result"].caught /\ DocResult = <<>>
        ELSE ~fn_out["result"].caught =>
               LET d == DocResult[1]
                   language == BaseDoc["language"]
                   skips == Get(Get(fn_in.cfg["languages"], language, EmptyDict),
                                "skip_language_path_in_url", FALSE)
                   prefix == IF skips THEN <<>> ELSE language \o S_slash
                   seed == IF "target_file" \in DOMAIN BaseDoc
                           THEN BaseDoc["target_file"] ELSE BaseDoc["url"]
               IN /\ d["url"] = prefix \o seed
                  /\ "target_file" \in DOMAIN d <=> "target_file" \in DOMAIN BaseDoc
                  /\ "target_file" \in DOMAIN d =>
                        d["target_file"] = prefix \o BaseDoc["target_file"]

\* a document with a url and a target_file in a language with the prefix
C21_Witness ==
    /\ "result" \in DOMAIN fn_out
    /\ fn_in.file.readable
    /\ "url" \in DOMAIN fn_in.file.fm
    /\ Get(fn_in.file.fm, "target_file", <<>>) = S_feed
    /\ Len(DocResult) = 1
    /\ DocResult[1]["url"] = S_fi \o S_slash \o S_feed
    /\ DocResult[1]["target_file"] = S_fi \o S_slash \o S_feed


\* the tags carried by the posts of the registry in one language
TagsOfPostsIn(language) ==
    UNION {Range(Get(posts_items[i], "tags", <<>>)) :
             i \in {j \in 1..Len(posts_items) : posts_items[j]["language"] = language}}

\* the pages of the registry that were synthesized for a tag
TagDocuments == {i \in 1..Len(pages_items) : "tag" \in DOMAIN pages_items[i]}

\* the tag document of a tag and a language, as C22 describes it
IsTagDocumentOf(page, t, language) ==
    LET lang_config == Get(world.cfg.languages, language, EmptyDict)
        prefix == IF Get(lang_config, "skip_language_path_in_url", FALSE)
                  THEN <<>> ELSE language \o S_slash
    IN /\ page["name"] = S_tag \o S_dash \o t \o S_dash \o language
       /\ page["language"] = language
       /\ page["url"] = prefix \o Get(lang_config, "tag_url_prefix", S_tag) \o S_slash \o t

\* C22 as claimed: with tag pages enabled the pages registry holds exactly
\* one tag document for every enabled language and every tag of a post of
\* that language, and no other tag document; with tag pages disabled it
\* holds none.
C22_TagDocumentPerEnabledLanguage ==
    ProcessingCompleted =>
        IF ~world.cfg.tags.enabled THEN TagDocuments = {}
        ELSE /\ \A language \in Range(world.cfg.tags.languages) :
                  \A t \in TagsOfPostsIn(language) :
                     Cardinality({i \in TagDocuments :
                                     IsTagDocumentOf(pages_items[i], t, language)}) = 1
             /\ \A i \in TagDocuments :
                  \E language \in Range(world.cfg.tags.languages) :
                     \E t \in TagsOfPostsIn(language) :
                        IsTagDocumentOf(pages_items[i], t, language)

\* C22 as amended: the same for the enabled languages that
\* content.languages configures; an enabled language it does not configure
\* gets no tag document.
C22_TagDocumentPerConfiguredLanguage ==
    ProcessingCompleted =>
        LET languages == Range(world.cfg.tags.languages) \cap DOMAIN world.cfg.languages
        IN IF ~world.cfg.tags.enabled THEN TagDocuments = {}
           ELSE /\ \A language \in languages :
                     \A t \in TagsOfPostsIn(language) :
                        Cardinality({i \in TagDocuments :
                                        IsTagDocumentOf(pages_items[i], t, language)}) = 1
                /\ \A i \in TagDocuments :
                     \E language \in languages :
                        \E t \in TagsOfPostsIn(language) :
                           IsTagDocumentOf(pages_items[i], t, language)

\* posts in en and fi carry the tag x, fi is enabled but not configured,
\* and the only tag document is the one of en
C22_Witness ==
    /\ ProcessingCompleted
    /\ world.cfg.tags.enabled
    /\ world.cfg.tags.languages = <<S_en, S_fi>>
    /\ S_fi \notin DOMAIN world.cfg.languages
    /\ T_x \in TagsOfPostsIn(S_en)
    /\ T_x \in TagsOfPostsIn(S_fi)
    /\ Cardinality(TagDocuments) = 1
    /\ \E i \in TagDocuments : IsTagDocumentOf(pages_items[i], T_x, S_en)


\* C23: after the sort the pages with a nav_title are in ascending order of
\* nav_title and no page without a nav_title comes before a page with one.
C23_UntitledPagesLast ==
    "pages" \in DOMAIN fn_out =>
        LET pages == fn_out["pages"]
        IN \A i, j \in 1..Len(pages) :
             i < j =>
                /\ ("nav_title" \in DOMAIN pages[i] /\ "nav_title" \in DOMAIN pages[j])
                      => ~StrLess(pages[j]["nav_title"], pages[i]["nav_title"])
                /\ "nav_title" \notin DOMAIN pages[i] => "nav_title" \notin DOMAIN pages[j]


\* C24: a YAML file with content is loaded at its target key as the value
\* of its single top-level key when it is a mapping whose only key is the
\* target key, and as the whole content in every other case (a scalar,
\* several keys, or a single key other than the target key); what is
\* loaded is merged into a mapping already at the target key when it is a
\* mapping itself and assigned otherwise, and no other key changes.
C24_UnwrappedOnExactKey ==
    ("loaded" \in DOMAIN fn_out /\ fn_in.yaml_content # Map(EmptyDict)) =>
        LET kn == fn_in.target_key
            content == fn_in.yaml_content
            old == Get(fn_in.current.kids, kn, <<>>)
            unwrapped == content.map /\ DOMAIN content.kids = {kn}
            value == IF unwrapped THEN content.kids[kn] ELSE content
            new == fn_out["loaded"].kids
        IN /\ DOMAIN new = DOMAIN fn_in.current.kids \cup {kn}
           /\ \A k \in DOMAIN new \ {kn} : new[k] = fn_in.current.kids[k]
           /\ new[kn] = IF old # <<>> /\ old.map /\ value.map
                        THEN merge_config_dicts(old, value) ELSE value

\* the file holds {x: 1} and is loaded at the key "a", where a mapping
\* {y: 2} is: the content is not unwrapped
C24_Witness ==
    /\ "loaded" \in DOMAIN fn_out
    /\ fn_in.target_key = "a"
    /\ fn_in.current = T_ay2
    /\ fn_in.yaml_content = Map([j \in {"x"} |-> Leaf(1)])
    /\ fn_out["loaded"] = T_ax1y2


\* C25: a document that is no feed, sitemap or robots page is written only
\* after its rendered page has passed validate_doc.
C25_WrittenOnlyWhenValidated ==
    \A i \in BuildIdx :
        (fn_out.written[i] # <<>> /\ fn_in.docs[i].name # S_feed) => fn_out.validated[i]

\* C26: the render phase leaves every document of the registry as it was,
\* and the page written for a document is the page it renders to from the
\* registry as it was before the phase, whatever the other workers did.
C26_RegistryReadOnly ==
    /\ fn_out.docs = fn_in.docs
    /\ \A i \in BuildIdx :
         fn_out.written[i] # <<>> =>
            fn_out.written[i] = RenderedPage(fn_in.docs[i], fn_in.docs)


\* C27: every non-empty next_post_url of a post of the registry is the url
\* of a post of the registry in the same language whose prev_post_url is
\* the url of the first, and the same with next and prev exchanged.
C27_LinksStayInRegistry ==
    "posts" \in DOMAIN fn_out =>
        LET posts == fn_out["posts"]
            linked(P, from, back) ==
                P[from] # <<>> =>
                    \E j \in 1..Len(posts) :
                        /\ posts[j]["language"] = P["language"]
                        /\ posts[j]["url"] = P[from]
                        /\ posts[j][back] = P["url"]
        IN \A i \in 1..Len(posts) :
             /\ linked(posts[i], "next_post_url", "prev_post_url")
             /\ linked(posts[i], "prev_post_url", "next_post_url")


\* the output directory as the build found it
OutputBefore == {<<<<"o", "l", "d", ".", "h", "t", "m", "l">>>>}

\* C28: while configuration resolution, discovery or processing has failed
\* the output directory is as the build found it, and it differs from that
\* only after the render phase has started, as the fourth phase and after
\* the three others.
C28_OutputKeptOnEarlyFailure ==
    /\ raised \in {"config", "discovery", "processing"} => output = OutputBefore
    /\ build_error # <<>> => output = OutputBefore
    /\ output # OutputBefore =>
          /\ Len(started) >= 4
          /\ SubSeq(started, 1, 4) = <<"config", "discovery", "processing", "render">>

\* processing has failed, the build has exited and the old output is there
C28_Witness ==
    /\ pc = "exited"
    /\ started = <<"config", "discovery", "processing">>
    /\ build_error # <<>>
    /\ output = OutputBefore


\* C29: when build.envs has no entry or no output for the active build
\* environment, clean_output_directory deletes no file.
C29_NothingDeletedWithoutOutputDir ==
    ("files" \in DOMAIN fn_out
     /\ "output" \notin DOMAIN Get(fn_in.envs, fn_in.build_env, EmptyDict)) =>
        fn_out["files"] = fn_in.files

\* C30: trim_slashes_from_config leaves the paths of the file system as
\* they were: every document's file_path is after the trimming what
\* process_single_doc gave it.
C30_PathsKeptByTrim ==
    "trimmed" \in DOMAIN fn_out =>
        \A k \in 1..Len(DocResult) :
            fn_out["trimmed"][k]["file_path"] = DocResult[k]["file_path"]

=============================================================================
